---- MODULE Spec2Model ----
(***************************************************************************)
(* Schema resolution engine of gendal: the ad-hoc query introspector       *)
(* (loaders/postgres.go, PgQueryColumns) and the schema graph builder      *)
(* (internal/loader.go, TypeLoader.LoadSchema and the loaders it drives).  *)
(*                                                                         *)
(* Identifiers (table, column, constraint names) are sequences of one-     *)
(* character strings, so that case folding, concatenation and substring    *)
(* search are computed as the Go code computes them.                       *)
(***************************************************************************)
EXTENDS Integers, Sequences, FiniteSets, TLC

VARIABLES
    \* ---- PgQueryColumns (loaders/postgres.go) ----
    qpc,        \* position of the running call: idle, created, looked, loaded, returned
    catalog,    \* view identifiers that exist in the database
    xoid,       \* the call's view identifier ("_xo_" + GenRandomID())
    qresult,    \* the local variable result
    qerr,       \* the local variable err
    qret,       \* what the call returned: [cols, err]
    qlog,       \* the statements the call executed, in order, with their outcome
    qcalls,     \* calls started so far
    \* ---- TypeLoader.LoadSchema (internal/loader.go) ----
    args,       \* the ArgType the call receives (configuration)
    db,         \* what the adapter's catalog functions report
    pc,         \* phases LoadSchema has been through so far, in order
    status,     \* running, done (returned nil), failed (returned err), panicked
    err,        \* the error LoadSchema returned
    log,        \* adapter calls and ExecuteTemplate calls of the last phase, in order
    history,    \* every adapter call and ExecuteTemplate call made so far
    fault,      \* the calls the adapter or the backend failed in the last phase
    tableMap,   \* the relation map (tables, then tables merged with views)
    viewMap,    \* the map LoadRelkind returned for views
    fkMap,      \* the global foreign-key map of LoadForeignKeys
    ixMap,      \* the index map of LoadIndexes
    \* ---- PgIndexColumns and TypeLoader.LoadIndexColumns ----
    ixpc,       \* position of the call: idle, start, loaded, failed
    ixin,       \* the index, its relation's fields and what the catalog reports
    ixret,      \* what PgIndexColumns returned: [cols, err]
    ixfields,   \* ixTpl.Fields
    \* ---- PgParseType (loaders/postgres.go, loaders/postgrestypes) ----
    ptargs,     \* the ArgType: Schema, PgtypeMode, Int32Type, Uint32Type
    ptin,       \* the resolution under observation: [dt, nullable]
    ptlog,      \* the calls of PgParseType so far and what they returned
    ptslice,    \* the value the local asSlice had when the last call returned
    pttext,     \* <<text>> for the last call of PgtypeMode.UnmarshalText
    pterr,      \* the error that call returned
    \* ---- snaker: Initialisms (src/unnamed/part_001) ----
    ini,        \* the Initialisms under observation: its map m and its max
    sncall,     \* the last call on it: fn, arg, err, out and the runs scanned
    \* ---- PgTables (loaders/postgres.go) ----
    tbin,       \* the call's schema and relkind and what the catalog queries report
    tbret       \* what PgTables returned: [tables, err]

qcVars == <<qpc, catalog, xoid, qresult, qerr, qret, qlog, qcalls>>

lsVars == <<args, db, pc, status, err, log, history, fault, tableMap, viewMap, fkMap, ixMap>>

icVars == <<ixpc, ixin, ixret, ixfields>>

ptVars == <<ptargs, ptin, ptlog, ptslice, pttext, pterr>>

snVars == <<ini, sncall>>

tbVars == <<tbin, tbret>>

vars == <<qcVars, lsVars, icVars, ptVars, snVars, tbVars>>

\* What a step of one of the machines leaves alone: the other machines.

\* The nil error.
Nil == "nil"


(***************************************************************************)
(* Strings and maps                                                        *)
(***************************************************************************)

UpperChars == <<"A", "B", "C", "D", "E", "F", "G", "H", "I", "J", "K", "L", "M",
                "N", "O", "P", "Q", "R", "S", "T", "U", "V", "W", "X", "Y", "Z">>

LowerChars == <<"a", "b", "c", "d", "e", "f", "g", "h", "i", "j", "k", "l", "m",
                "n", "o", "p", "q", "r", "s", "t", "u", "v", "w", "x", "y", "z">>

\* strings.ToLower
ToLower(s) ==
    [i \in DOMAIN s |->
        IF \E k \in DOMAIN UpperChars : UpperChars[k] = s[i]
        THEN LowerChars[CHOOSE k \in DOMAIN UpperChars : UpperChars[k] = s[i]]
        ELSE s[i]]

\* strings.Contains
Contains(s, sub) ==
    \E i \in 0..(Len(s) - Len(sub)) : SubSeq(s, i + 1, i + Len(sub)) = sub

\* m[k] = v on a Go map
MapPut(m, k, v) ==
    [x \in (DOMAIN m) \cup {k} |-> IF x = k THEN v ELSE m[x]]

\* The element of the one-element set S. The({F(x) : x \in {e}}) is F(e),
\* with e evaluated once.
The(S) == CHOOSE x \in S : TRUE

\* The elements of the sequence s as a set.
Range(s) == {s[i] : i \in DOMAIN s}

\* All orders in which the elements of the set S can be listed.
Perms(S) ==
    {p \in [1..Cardinality(S) -> S] : \A x \in S : \E i \in DOMAIN p : p[i] = x}

\* The keys of map m in the order ord lists them (Go iterates a map in an
\* unspecified order; ord lists every possible key).
KeysInOrder(m, ord) == SelectSeq(ord, LAMBDA k : k \in DOMAIN m)

(***************************************************************************)
(* Errors, the adapter and the template backend                            *)
(***************************************************************************)

NoErr == <<>>

\* The error the adapter function fn returns when its call with arg fails.
AdapterErr(fn, arg) == <<"adapter", fn, arg>>

\* The error ExecuteTemplate returns when it fails.
TemplateErr(kind, name) == <<"template", kind, name>>

\* errors.New("could not find col, refTpl, or refCol")
ConsistencyErr == <<"could not find col, refTpl, or refCol">>

\* A nil pointer dereference: the call does not return.
PanicErr == <<"panic: nil pointer dereference">>

\* Log entries.
Call(fn, arg) == <<"call", fn, arg>>
Tpl(kind, name) == <<"tpl", kind, name>>

\* The error of a call or template the fault set makes fail.
CallErr(fail, fn, arg) ==
    IF Call(fn, arg) \in fail THEN AdapterErr(fn, arg) ELSE NoErr

ExecuteTemplate(fail, kind, name) ==
    IF Tpl(kind, name) \in fail THEN TemplateErr(kind, name) ELSE NoErr

\* PgRelkind
Relkind(relType) == IF relType = "Table" THEN <<"r">> ELSE <<"v">>

(***************************************************************************)
(* The entity graph                                                        *)
(***************************************************************************)

\* A nil *Field.
NilField == [Col |-> [ColumnName |-> <<>>, IsPrimaryKey |-> FALSE]]

NewField(c) == [Col |-> c]

\* typeTpl := &Type{...} of LoadRelkind
NewType(ti, relType) ==
    [TableName |-> ti.TableName, RelType |-> relType, Fields |-> <<>>,
     PrimaryKey |-> NilField, PrimaryKeyFields |-> <<>>,
     ForeignKeys |-> <<>>, Sqlx |-> FALSE]

\* The first field of fields whose column is named name, or nil.
FindField(fields, name) ==
    IF \E i \in DOMAIN fields : fields[i].Col.ColumnName = name
    THEN fields[CHOOSE i \in DOMAIN fields :
                    /\ fields[i].Col.ColumnName = name
                    /\ \A j \in 1..(i - 1) : fields[j].Col.ColumnName # name]
    ELSE NilField

(***************************************************************************)
(* Ignore lists and column loading                                         *)
(***************************************************************************)

\* The ignore check of LoadRelkind.
IgnoredTable(a, name) ==
    \E i \in DOMAIN a.IgnoreTables : ToLower(a.IgnoreTables[i]) = ToLower(name)

IgnoredField_CaseSensitive(a, name) ==
    \E i \in DOMAIN a.IgnoreFields : a.IgnoreFields[i] = name

\* The ignore check of LoadColumns.
IgnoredField(a, name) ==
    \E i \in DOMAIN a.IgnoreFields : ToLower(a.IgnoreFields[i]) = ToLower(name)

\* The loop of LoadColumns over the column list: typeTpl with its Fields,
\* PrimaryKeyFields and PrimaryKey set.
ProcessColumns(a, typeTpl, columnList) ==
    The({The({[typeTpl EXCEPT
                !.Fields = typeTpl.Fields \o fields,
                !.PrimaryKeyFields = typeTpl.PrimaryKeyFields \o pks,
                !.PrimaryKey = IF pks = <<>> THEN typeTpl.PrimaryKey
                               ELSE pks[Len(pks)]] :
                pks \in {SelectSeq(fields, LAMBDA f : f.Col.IsPrimaryKey)}}) :
            fields \in {The({[i \in DOMAIN kept |-> NewField(kept[i])] :
                kept \in {SelectSeq(columnList,
                              LAMBDA c : ~IgnoredField(a, c.ColumnName))}})}})

\* TypeLoader.LoadColumns: [err, typeTpl, log].
LoadColumns(a, d, typeTpl, fail) ==
    [err |-> CallErr(fail, "ColumnList", typeTpl.TableName),
     log |-> <<Call("ColumnList", typeTpl.TableName)>>,
     typeTpl |-> IF CallErr(fail, "ColumnList", typeTpl.TableName) # NoErr
                 THEN typeTpl
                 ELSE ProcessColumns(a, typeTpl, d.columns[typeTpl.TableName])]

(***************************************************************************)
(* Foreign-key resolution                                                  *)
(***************************************************************************)

extractProperForeignKeys_Unfiltered(fkList, dsn) == fkList

\* TypeLoader.extractProperForeignKeys; dsn is the unaliased scheme of the
\* parsed DSN (args.DSN was parsed when the connection was opened).
extractProperForeignKeys(fkList, dsn) ==
    IF dsn = "cockroachdb"
    THEN SelectSeq(fkList, LAMBDA fk : Contains(fk.ForeignKeyName, fk.ColumnName))
    ELSE fkList

\* fk.ForeignKeyName after the "foreign key name" step.
ForeignKeyNameOf(typeTpl, col, fk) ==
    IF fk.ForeignKeyName = <<>>
    THEN typeTpl.TableName \o <<"_">> \o col.Col.ColumnName \o <<"_", "f", "k", "e", "y">>
    ELSE fk.ForeignKeyName

\* The referenced field: the named column of refTpl, else its primary key.
RefColOf_TrustsRow(refTpl, fk) ==
    [Col |-> [ColumnName |-> fk.RefColumnName, IsPrimaryKey |-> FALSE]]

RefColOf(refTpl, fk) ==
    The({IF found = NilField THEN refTpl.PrimaryKey ELSE found :
            found \in {FindField(refTpl.Fields, fk.RefColumnName)}})

\* The key of the global map: fk.ForeignKeyName + "_" + strconv.Itoa(rand.Int())
FkMapKey(name, rand) == name \o <<"_">> \o rand

\* One pass of the loop body of GetTableForeignKeys up to the ForeignKey it
\* builds: [err, foreignKey]. A row whose referenced table is not in
\* tableMap leaves refTpl nil, and ranging over refTpl.Fields panics.
ResolveForeignKey(tm, typeTpl, fk) ==
    IF fk.RefTableName \notin DOMAIN tm
    THEN [err |-> PanicErr]
    ELSE The({IF col = NilField \/ refCol = NilField
              THEN [err |-> ConsistencyErr]
              ELSE [err |-> NoErr,
                    foreignKey |->
                        [Type |-> typeTpl.TableName, Field |-> col,
                         RefType |-> fk.RefTableName, RefField |-> refCol,
                         ForeignKey |-> [fk EXCEPT !.ForeignKeyName =
                                            ForeignKeyNameOf(typeTpl, col, fk)]]] :
                col \in {FindField(typeTpl.Fields, fk.ColumnName)},
                refCol \in {RefColOf(tm[fk.RefTableName], fk)}})

AddForeignKey_SuffixedName(acc, foreignKey, useMap, rnd) ==
    [err |-> NoErr,
     foreignKeys |->
        Append(acc.foreignKeys,
               IF useMap
               THEN [foreignKey EXCEPT !.ForeignKey.ForeignKeyName =
                        FkMapKey(foreignKey.ForeignKey.ForeignKeyName, rnd[acc.n + 1])]
               ELSE foreignKey),
     fkMap |-> IF useMap
               THEN MapPut(acc.fkMap,
                           FkMapKey(foreignKey.ForeignKey.ForeignKeyName, rnd[acc.n + 1]),
                           [foreignKey EXCEPT !.ForeignKey.ForeignKeyName =
                                FkMapKey(foreignKey.ForeignKey.ForeignKeyName,
                                         rnd[acc.n + 1])])
               ELSE acc.fkMap,
     n |-> IF useMap THEN acc.n + 1 ELSE acc.n]

\* What a resolved row adds to the result and to the global map. acc is
\* [err, foreignKeys, fkMap, n]: n counts the random numbers drawn so far;
\* useMap is fkMap # nil.
AddForeignKey(acc, foreignKey, useMap, rnd) ==
    [err |-> NoErr,
     foreignKeys |-> Append(acc.foreignKeys, foreignKey),
     fkMap |-> IF useMap
               THEN MapPut(acc.fkMap,
                           FkMapKey(foreignKey.ForeignKey.ForeignKeyName, rnd[acc.n + 1]),
                           foreignKey)
               ELSE acc.fkMap,
     n |-> IF useMap THEN acc.n + 1 ELSE acc.n]

\* The loop of GetTableForeignKeys from row i on.
RECURSIVE GetTableForeignKeysFrom(_, _, _, _, _, _, _)
GetTableForeignKeysFrom(tm, typeTpl, useMap, fkList, rnd, i, acc) ==
    IF i > Len(fkList) THEN acc
    ELSE The({IF row.err # NoErr
              THEN [acc EXCEPT !.err = row.err, !.foreignKeys = <<>>]
              ELSE The({GetTableForeignKeysFrom(tm, typeTpl, useMap, fkList, rnd,
                                                i + 1, next) :
                            next \in {AddForeignKey(acc, row.foreignKey, useMap, rnd)}}) :
                row \in {ResolveForeignKey(tm, typeTpl, fkList[i])}})

\* TypeLoader.GetTableForeignKeys: [err, foreignKeys, fkMap, n].
GetTableForeignKeys(tm, typeTpl, useMap, fkm, n, fkList, rnd) ==
    The({GetTableForeignKeysFrom(tm, typeTpl, useMap, fkList, rnd, 1, acc) :
            acc \in {[err |-> NoErr, foreignKeys |-> <<>>, fkMap |-> fkm, n |-> n]}})

(***************************************************************************)
(* Enums and procedures                                                    *)
(***************************************************************************)

CallEach_IgnoreErr(fail, fn, items, i, acc) ==
    [err |-> NoErr,
     log |-> acc.log \o [j \in DOMAIN items |-> Call(fn, items[j])]]

\* One adapter call fn(item) per item of items, stopping at the first one
\* that fails. acc is [err, log].
RECURSIVE CallEach(_, _, _, _, _)
CallEach(fail, fn, items, i, acc) ==
    IF i > Len(items) \/ acc.err # NoErr THEN acc
    ELSE The({CallEach(fail, fn, items, i + 1, next) :
                next \in {[err |-> CallErr(fail, fn, items[i]),
                           log |-> Append(acc.log, Call(fn, items[i]))]}})

TemplateEach_Deferred(fail, kind, keys, i, acc) == acc

\* One ExecuteTemplate(kind, key) per key of keys, stopping at the first one
\* that fails. acc is [err, log].
RECURSIVE TemplateEach(_, _, _, _, _)
TemplateEach(fail, kind, keys, i, acc) ==
    IF i > Len(keys) \/ acc.err # NoErr THEN acc
    ELSE The({TemplateEach(fail, kind, keys, i + 1, next) :
                next \in {[err |-> ExecuteTemplate(fail, kind, keys[i]),
                           log |-> Append(acc.log, Tpl(kind, keys[i]))]}})

\* A list phase: the list call, one call per listed item, then one template
\* per entry of the name-keyed map, in the map's iteration order.
ListPhase(listFn, itemFn, kind, items, ord, fail) ==
    The({TemplateEach(fail, kind, SelectSeq(ord, LAMBDA k : k \in Range(items)), 1, each) :
            each \in {The({CallEach(fail, itemFn, items, 1, first) :
                        first \in {[err |-> CallErr(fail, listFn, <<>>),
                                    log |-> <<Call(listFn, <<>>)>>]}})}})

LoadEnums_NoNilCheck(a, d, ord, fail) ==
    ListPhase("EnumList", "EnumValueList", "enum", d.enums, ord, fail)

\* TypeLoader.LoadEnums (with LoadEnumValues): [err, log].
LoadEnums(a, d, ord, fail) ==
    IF ~a.HasEnumList THEN [err |-> NoErr, log |-> <<>>]
    ELSE ListPhase("EnumList", "EnumValueList", "enum", d.enums, ord, fail)

\* TypeLoader.LoadProcs (with LoadProcParams): [err, log].
LoadProcs(a, d, ord, fail) ==
    IF ~a.HasProcList THEN [err |-> NoErr, log |-> <<>>]
    ELSE ListPhase("ProcList", "ProcParamList", "proc", d.procs, ord, fail)

(***************************************************************************)
(* Relations                                                               *)
(***************************************************************************)

\* One pass of the first loop of LoadRelkind, for the row ti. acc is
\* [err, log, tableMap].
LoadRelkindRow(a, d, relType, ti, acc, fail) ==
    IF IgnoredTable(a, ti.TableName) THEN acc
    ELSE The({[err |-> r.err,
               log |-> acc.log \o r.log,
               tableMap |-> IF r.err = NoErr
                            THEN MapPut(acc.tableMap, ti.TableName, r.typeTpl)
                            ELSE acc.tableMap] :
                r \in {LoadColumns(a, d, NewType(ti, relType), fail)}})

\* The first loop of LoadRelkind, from row i on.
RECURSIVE LoadRelkindRows(_, _, _, _, _, _, _)
LoadRelkindRows(a, d, relType, tableList, i, acc, fail) ==
    IF i > Len(tableList) \/ acc.err # NoErr THEN acc
    ELSE The({LoadRelkindRows(a, d, relType, tableList, i + 1, next, fail) :
                next \in {LoadRelkindRow(a, d, relType, tableList[i], acc, fail)}})

\* The foreign keys LoadRelkind attaches to t when args.Sqlx is set:
\* [err, log, foreignKeys]. The error of extractProperForeignKeys is
\* overwritten, and no global map is passed.
SqlxForeignKeys(a, d, tm, t, fail) ==
    IF CallErr(fail, "ForeignKeyList", t.TableName) # NoErr
    THEN [err |-> CallErr(fail, "ForeignKeyList", t.TableName),
          log |-> <<Call("ForeignKeyList", t.TableName)>>,
          foreignKeys |-> <<>>]
    ELSE The({[err |-> r.err,
               log |-> <<Call("ForeignKeyList", t.TableName)>>,
               foreignKeys |-> r.foreignKeys] :
                r \in {GetTableForeignKeys(tm, t, FALSE, <<>>, 0,
                          extractProperForeignKeys(d.fks[t.TableName], a.DSN), <<>>)}})

\* One pass of the second loop of LoadRelkind ("generate table templates"),
\* for the entry with key k. acc is [err, log, tableMap].
LoadRelkindTemplate(a, d, k, acc, fail) ==
    The({IF fkr.err # NoErr
         THEN [acc EXCEPT !.err = fkr.err, !.log = acc.log \o fkr.log]
         ELSE [err |-> ExecuteTemplate(fail, "type", k),
               log |-> acc.log \o fkr.log \o <<Tpl("type", k)>>,
               tableMap |-> MapPut(acc.tableMap, k,
                              [acc.tableMap[k] EXCEPT !.Sqlx = a.Sqlx,
                                                      !.ForeignKeys = fkr.foreignKeys])] :
            fkr \in {IF a.Sqlx
                     THEN SqlxForeignKeys(a, d, acc.tableMap, acc.tableMap[k], fail)
                     ELSE [err |-> NoErr, log |-> <<>>, foreignKeys |-> <<>>]}})

\* The second loop of LoadRelkind, over the keys of tableMap from position
\* i on.
RECURSIVE LoadRelkindTemplates(_, _, _, _, _, _)
LoadRelkindTemplates(a, d, keys, i, acc, fail) ==
    IF i > Len(keys) \/ acc.err # NoErr THEN acc
    ELSE The({LoadRelkindTemplates(a, d, keys, i + 1, next, fail) :
                next \in {LoadRelkindTemplate(a, d, keys[i], acc, fail)}})

\* The table list the adapter reports for a relation kind.
TableList(d, relType) == IF relType = "Table" THEN d.tables ELSE d.views

\* TypeLoader.LoadRelkind: [err, log, tableMap]; the map is nil on error.
LoadRelkind(a, d, relType, ord, fail) ==
    IF CallErr(fail, "TableList", Relkind(relType)) # NoErr
    THEN [err |-> CallErr(fail, "TableList", Relkind(relType)),
          log |-> <<Call("TableList", Relkind(relType))>>,
          tableMap |-> <<>>]
    ELSE The({IF rows.err # NoErr THEN [rows EXCEPT !.tableMap = <<>>]
              ELSE The({[done EXCEPT !.tableMap =
                                IF done.err # NoErr THEN <<>> ELSE done.tableMap] :
                        done \in {LoadRelkindTemplates(a, d,
                                    KeysInOrder(rows.tableMap, ord), 1, rows, fail)}}) :
                rows \in {The({LoadRelkindRows(a, d, relType, TableList(d, relType),
                                               1, first, fail) :
                            first \in {[err |-> NoErr,
                                        log |-> <<Call("TableList", Relkind(relType))>>,
                                        tableMap |-> <<>>]}})}})

MergeViews_TablesWin(tm, vm) ==
    [k \in (DOMAIN tm) \cup (DOMAIN vm) |-> IF k \in DOMAIN tm THEN tm[k] ELSE vm[k]]

\* "merge views with the tableMap": tableMap[k] = v for every entry of viewMap.
MergeViews(tm, vm) ==
    [k \in (DOMAIN tm) \cup (DOMAIN vm) |-> IF k \in DOMAIN vm THEN vm[k] ELSE tm[k]]

(***************************************************************************)
(* Foreign keys of the whole schema                                        *)
(***************************************************************************)

\* TypeLoader.LoadTableForeignKeys after the tables before it: acc is
\* [err, log, fkMap, n].
LoadTableForeignKeys(a, d, tm, typeTpl, acc, fail, rnd) ==
    IF CallErr(fail, "ForeignKeyList", typeTpl.TableName) # NoErr
    THEN [acc EXCEPT !.err = CallErr(fail, "ForeignKeyList", typeTpl.TableName),
                     !.log = Append(acc.log, Call("ForeignKeyList", typeTpl.TableName))]
    ELSE The({[err |-> r.err,
               log |-> Append(acc.log, Call("ForeignKeyList", typeTpl.TableName)),
               fkMap |-> r.fkMap,
               n |-> r.n] :
                r \in {GetTableForeignKeys(tm, typeTpl, TRUE, acc.fkMap, acc.n,
                          extractProperForeignKeys(d.fks[typeTpl.TableName], a.DSN),
                          rnd)}})

\* The first loop of LoadForeignKeys, over the keys of tableMap from
\* position i on.
RECURSIVE LoadForeignKeysTables(_, _, _, _, _, _, _, _)
LoadForeignKeysTables(a, d, tm, keys, i, acc, fail, rnd) ==
    IF i > Len(keys) \/ acc.err # NoErr THEN acc
    ELSE The({LoadForeignKeysTables(a, d, tm, keys, i + 1, next, fail, rnd) :
                next \in {LoadTableForeignKeys(a, d, tm, tm[keys[i]], acc, fail, rnd)}})

\* The names ExecuteTemplate gets for a foreign key or an index.
TemplateName(typeName, name) == typeName \o <<"/">> \o name

\* The names of the templates of the foreign keys of fkm, in the order keys.
ForeignKeyTemplates(fkm, keys) ==
    [i \in DOMAIN keys |->
        TemplateName(fkm[keys[i]].Type, fkm[keys[i]].ForeignKey.ForeignKeyName)]

\* The foreign-key map after the first loop of LoadForeignKeys:
\* [err, log, fkMap, n].
LoadForeignKeysResolved(a, d, tm, ord, fail, rnd) ==
    The({LoadForeignKeysTables(a, d, tm, KeysInOrder(tm, ord), 1, acc, fail, rnd) :
            acc \in {[err |-> NoErr, log |-> <<>>, fkMap |-> <<>>, n |-> 0]}})

\* TypeLoader.LoadForeignKeys: [err, log, fkMap]; the map is nil on error.
\* ord is the iteration order of tableMap, fkOrd that of fkMap.
LoadForeignKeys(a, d, tm, ord, fkOrd, fail, rnd) ==
    The({IF r.err # NoErr THEN [err |-> r.err, log |-> r.log, fkMap |-> <<>>]
         ELSE The({[err |-> done.err,
                    log |-> done.log,
                    fkMap |-> IF done.err # NoErr THEN <<>> ELSE r.fkMap] :
                    done \in {TemplateEach(fail, "foreignkey",
                                ForeignKeyTemplates(r.fkMap, KeysInOrder(r.fkMap, fkOrd)),
                                1, [err |-> NoErr, log |-> r.log])}}) :
            r \in {LoadForeignKeysResolved(a, d, tm, ord, fail, rnd)}})

(***************************************************************************)
(* Indexes                                                                 *)
(***************************************************************************)

\* The models.Index of a catalog row.
IndexRow(ix) ==
    [IndexName |-> ix.IndexName, IsUnique |-> ix.IsUnique,
     IsPrimary |-> ix.IsPrimary, Origin |-> ix.Origin]

\* The argument of an IndexColumnList call: the table and the index.
IndexArg(table, index) == table \o <<".">> \o index

\* The loop of LoadIndexColumns: the fields of the index columns that are
\* fields of the relation, in the order of indexCols.
IndexFields(typeTpl, indexCols) ==
    SelectSeq([i \in DOMAIN indexCols |->
                    FindField(typeTpl.Fields, indexCols[i].ColumnName)],
              LAMBDA f : f # NilField)

\* The key of an index in the index map.
IxMapKey(table, index) == table \o <<"_">> \o index

\* One pass of the loop of LoadTableIndexes, for the index row ix. acc is
\* [err, log, ixMap, priIxLoaded].
LoadTableIndex(a, typeTpl, ix, acc, fail) ==
    [err |-> CallErr(fail, "IndexColumnList", IndexArg(typeTpl.TableName, ix.IndexName)),
     log |-> Append(acc.log,
                Call("IndexColumnList", IndexArg(typeTpl.TableName, ix.IndexName))),
     ixMap |-> IF CallErr(fail, "IndexColumnList",
                          IndexArg(typeTpl.TableName, ix.IndexName)) # NoErr
               THEN acc.ixMap
               ELSE MapPut(acc.ixMap, IxMapKey(typeTpl.TableName, ix.IndexName),
                        [Type |-> typeTpl.TableName,
                         Fields |-> IndexFields(typeTpl, ix.Columns),
                         Index |-> IndexRow(ix)]),
     priIxLoaded |-> acc.priIxLoaded \/ ix.IsPrimary \/ ix.Origin = "pk"]

\* The loop of LoadTableIndexes over the index list from row i on.
RECURSIVE LoadTableIndexesFrom(_, _, _, _, _, _)
LoadTableIndexesFrom(a, typeTpl, indexList, i, acc, fail) ==
    IF i > Len(indexList) \/ acc.err # NoErr THEN acc
    ELSE The({LoadTableIndexesFrom(a, typeTpl, indexList, i + 1, next, fail) :
                next \in {LoadTableIndex(a, typeTpl, indexList[i], acc, fail)}})

\* "search for primary key if it was skipped being set in the type"
PrimaryKeyOf(typeTpl) ==
    IF typeTpl.PrimaryKey # NilField THEN typeTpl.PrimaryKey
    ELSE IF \E i \in DOMAIN typeTpl.Fields : typeTpl.Fields[i].Col.IsPrimaryKey
    THEN typeTpl.Fields[CHOOSE i \in DOMAIN typeTpl.Fields :
            /\ typeTpl.Fields[i].Col.IsPrimaryKey
            /\ \A j \in 1..(i - 1) : ~typeTpl.Fields[j].Col.IsPrimaryKey]
    ELSE NilField

\* The name of the synthesized primary-key index.
PkeyName(typeTpl, pk) ==
    typeTpl.TableName \o <<"_">> \o pk.Col.ColumnName \o <<"_", "p", "k", "e", "y">>

SynthesizesPkey_AnyCatalog(a, priIxLoaded, pk) ==
    a.LoaderType # "ora" /\ pk # NilField

\* Whether LoadTableIndexes synthesizes the primary-key index.
SynthesizesPkey(a, priIxLoaded, pk) ==
    a.LoaderType # "ora" /\ ~priIxLoaded /\ pk # NilField

\* The index map after the synthesis step of LoadTableIndexes.
WithSynthesizedPkey(a, typeTpl, ixm, priIxLoaded, pk) ==
    IF SynthesizesPkey(a, priIxLoaded, pk)
    THEN MapPut(ixm, PkeyName(typeTpl, pk),
            [Type |-> typeTpl.TableName,
             Fields |-> <<pk>>,
             Index |-> [IndexName |-> PkeyName(typeTpl, pk), IsUnique |-> TRUE,
                        IsPrimary |-> TRUE, Origin |-> ""]])
    ELSE ixm

\* TypeLoader.LoadTableIndexes after the tables before it: acc is
\* [err, log, ixMap].
LoadTableIndexes(a, d, typeTpl, acc, fail) ==
    IF CallErr(fail, "IndexList", typeTpl.TableName) # NoErr
    THEN [acc EXCEPT !.err = CallErr(fail, "IndexList", typeTpl.TableName),
                     !.log = Append(acc.log, Call("IndexList", typeTpl.TableName))]
    ELSE The({[err |-> r.err,
               log |-> r.log,
               ixMap |-> IF r.err # NoErr THEN r.ixMap
                         ELSE WithSynthesizedPkey(a, typeTpl, r.ixMap, r.priIxLoaded,
                                                  PrimaryKeyOf(typeTpl))] :
                r \in {The({LoadTableIndexesFrom(a, typeTpl,
                                d.indexes[typeTpl.TableName], 1, first, fail) :
                            first \in {[err |-> NoErr,
                                        log |-> Append(acc.log,
                                                  Call("IndexList", typeTpl.TableName)),
                                        ixMap |-> acc.ixMap,
                                        priIxLoaded |-> FALSE]}})}})

\* The first loop of LoadIndexes, over the keys of tableMap from position i
\* on.
RECURSIVE LoadIndexesTables(_, _, _, _, _, _, _)
LoadIndexesTables(a, d, tm, keys, i, acc, fail) ==
    IF i > Len(keys) \/ acc.err # NoErr THEN acc
    ELSE The({LoadIndexesTables(a, d, tm, keys, i + 1, next, fail) :
                next \in {LoadTableIndexes(a, d, tm[keys[i]], acc, fail)}})

\* The names of the templates of the indexes of ixm, in the order keys.
IndexTemplates(ixm, keys) ==
    [i \in DOMAIN keys |->
        TemplateName(ixm[keys[i]].Type, ixm[keys[i]].Index.IndexName)]

\* The index map after the first loop of LoadIndexes: [err, log, ixMap].
LoadIndexesResolved(a, d, tm, ord, fail) ==
    The({LoadIndexesTables(a, d, tm, KeysInOrder(tm, ord), 1, acc, fail) :
            acc \in {[err |-> NoErr, log |-> <<>>, ixMap |-> <<>>]}})

\* TypeLoader.LoadIndexes: [err, log, ixMap]; the map is nil on error.
\* ord is the iteration order of tableMap, ixOrd that of ixMap.
LoadIndexes(a, d, tm, ord, ixOrd, fail) ==
    The({IF r.err # NoErr THEN [err |-> r.err, log |-> r.log, ixMap |-> <<>>]
         ELSE The({[err |-> done.err,
                    log |-> done.log,
                    ixMap |-> IF done.err # NoErr THEN <<>> ELSE r.ixMap] :
                    done \in {TemplateEach(fail, "index",
                                IndexTemplates(r.ixMap, KeysInOrder(r.ixMap, ixOrd)),
                                1, [err |-> NoErr, log |-> r.log])}}) :
            r \in {LoadIndexesResolved(a, d, tm, ord, fail)}})

(***************************************************************************)
(* TypeLoader.LoadSchema                                                   *)
(***************************************************************************)

LoadSchemaOrder_ProcsFirst ==
    <<"procs", "enums", "tables", "views", "merge", "foreignkeys", "indexes">>

\* The phases of LoadSchema in the order of its statements.
LoadSchemaOrder ==
    <<"enums", "procs", "tables", "views", "merge", "foreignkeys", "indexes">>

\* The phase LoadSchema runs next.
NextPhase ==
    IF Len(pc) < Len(LoadSchemaOrder) THEN LoadSchemaOrder[Len(pc) + 1] ELSE "return"

Running(phase) == status = "running" /\ NextPhase = phase

\* The fault sets a phase is run under: no call fails, or one of the calls
\* (adapter or template) that the phase makes fails. r is the phase's
\* result when nothing fails.
Faults(r) == {{}} \cup {{c} : c \in Range(r.log)}

\* What a phase that ended with r leaves: LoadSchema returns r.err when it is
\* not nil and goes on to the next phase otherwise.
PhaseEnds(phase, fail, r) ==
    /\ pc' = Append(pc, phase)
    /\ fault' = fail
    /\ log' = r.log
    /\ history' = history \cup Range(r.log)
    /\ err' = r.err
    /\ status' = IF r.err = PanicErr THEN "panicked"
                 ELSE IF r.err # NoErr THEN "failed"
                 ELSE IF Len(pc) + 1 = Len(LoadSchemaOrder) THEN "done"
                 ELSE "running"

\* The random numbers rand.Int() can return, as strconv.Itoa prints them.
RandNums == {<<"1">>, <<"2">>}

\* The number of raw foreign-key rows of the relations keys lists.
RECURSIVE FkRowCount(_, _, _)
FkRowCount(d, keys, i) ==
    IF i > Len(keys) THEN 0 ELSE Len(d.fks[keys[i]]) + FkRowCount(d, keys, i + 1)

LoadEnumsPhase ==
    /\ Running("enums")
    /\ \E ord \in Perms(Range(db.enums)) :
       \E free \in {LoadEnums(args, db, ord, {})} :
       \E fail \in Faults(free) :
       \E r \in {LoadEnums(args, db, ord, fail)} :
            PhaseEnds("enums", fail, r)
    /\ UNCHANGED <<args, db, tableMap, viewMap, fkMap, ixMap>>
    /\ UNCHANGED <<qcVars, icVars, ptVars, snVars, tbVars>>

LoadProcsPhase ==
    /\ Running("procs")
    /\ \E ord \in Perms(Range(db.procs)) :
       \E free \in {LoadProcs(args, db, ord, {})} :
       \E fail \in Faults(free) :
       \E r \in {LoadProcs(args, db, ord, fail)} :
            PhaseEnds("procs", fail, r)
    /\ UNCHANGED <<args, db, tableMap, viewMap, fkMap, ixMap>>
    /\ UNCHANGED <<qcVars, icVars, ptVars, snVars, tbVars>>

\* The names of the rows of a table list.
TableNames(tableList) == {tableList[i].TableName : i \in DOMAIN tableList}

LoadTablesPhase ==
    /\ Running("tables")
    /\ \E ord \in Perms(TableNames(db.tables)) :
       \E free \in {LoadRelkind(args, db, "Table", ord, {})} :
       \E fail \in Faults(free) :
       \E r \in {LoadRelkind(args, db, "Table", ord, fail)} :
            /\ PhaseEnds("tables", fail, r)
            /\ tableMap' = r.tableMap
    /\ UNCHANGED <<args, db, viewMap, fkMap, ixMap>>
    /\ UNCHANGED <<qcVars, icVars, ptVars, snVars, tbVars>>

LoadViewsPhase ==
    /\ Running("views")
    /\ \E ord \in Perms(TableNames(db.views)) :
       \E free \in {LoadRelkind(args, db, "View", ord, {})} :
       \E fail \in Faults(free) :
       \E r \in {LoadRelkind(args, db, "View", ord, fail)} :
            /\ PhaseEnds("views", fail, r)
            /\ viewMap' = r.tableMap
    /\ UNCHANGED <<args, db, tableMap, fkMap, ixMap>>
    /\ UNCHANGED <<qcVars, icVars, ptVars, snVars, tbVars>>

MergePhase ==
    /\ Running("merge")
    /\ PhaseEnds("merge", {}, [err |-> NoErr, log |-> <<>>])
    /\ tableMap' = MergeViews(tableMap, viewMap)
    /\ UNCHANGED <<args, db, viewMap, fkMap, ixMap>>
    /\ UNCHANGED <<qcVars, icVars, ptVars, snVars, tbVars>>

LoadForeignKeysPhase ==
    /\ Running("foreignkeys")
    /\ \E ord \in Perms(DOMAIN tableMap) :
       \E rnd \in [1..FkRowCount(db, ord, 1) -> RandNums] :
       \E resolved \in {LoadForeignKeysResolved(args, db, tableMap, ord, {}, rnd)} :
       \E fkOrd \in Perms(DOMAIN resolved.fkMap) :
       \E free \in {LoadForeignKeys(args, db, tableMap, ord, fkOrd, {}, rnd)} :
       \E fail \in Faults(free) :
       \E r \in {LoadForeignKeys(args, db, tableMap, ord, fkOrd, fail, rnd)} :
            /\ PhaseEnds("foreignkeys", fail, r)
            /\ fkMap' = r.fkMap
    /\ UNCHANGED <<args, db, tableMap, viewMap, ixMap>>
    /\ UNCHANGED <<qcVars, icVars, ptVars, snVars, tbVars>>

LoadIndexesPhase ==
    /\ Running("indexes")
    /\ \E ord \in Perms(DOMAIN tableMap) :
       \E resolved \in {LoadIndexesResolved(args, db, tableMap, ord, {})} :
       \E ixOrd \in Perms(DOMAIN resolved.ixMap) :
       \E free \in {LoadIndexes(args, db, tableMap, ord, ixOrd, {})} :
       \E fail \in Faults(free) :
       \E r \in {LoadIndexes(args, db, tableMap, ord, ixOrd, fail)} :
            /\ PhaseEnds("indexes", fail, r)
            /\ ixMap' = r.ixMap
    /\ UNCHANGED <<args, db, tableMap, viewMap, fkMap>>
    /\ UNCHANGED <<qcVars, icVars, ptVars, snVars, tbVars>>

(***************************************************************************)
(* Inputs of LoadSchema: configurations and catalogs                       *)
(***************************************************************************)

\* The names the catalogs use.
nm == [t |-> <<"t">>, u |-> <<"u">>, v |-> <<"v">>, id |-> <<"i", "d">>,
       x |-> <<"x">>, t_id |-> <<"t", "_", "i", "d">>,
       fk |-> <<"u", "_", "t", "_", "i", "d", "_", "f", "k">>]

Col(name, pk) == [ColumnName |-> name, IsPrimaryKey |-> pk]
Tab(name) == [TableName |-> name]
Fk(name, col, refTable, refCol) ==
    [ForeignKeyName |-> name, ColumnName |-> col,
     RefTableName |-> refTable, RefColumnName |-> refCol]
Ix(name, unique, primary, origin, cols) ==
    [IndexName |-> name, IsUnique |-> unique, IsPrimary |-> primary,
     Origin |-> origin, Columns |-> [i \in DOMAIN cols |-> [ColumnName |-> cols[i]]]]

\* Every relation name a catalog uses.
RelNames == {nm.t, nm.u, nm.v, <<"T">>}

BaseArgs ==
    [HasEnumList |-> TRUE, HasProcList |-> TRUE, Sqlx |-> FALSE,
     IgnoreTables |-> <<>>, IgnoreFields |-> <<>>,
     LoaderType |-> "postgres", DSN |-> "postgres"]

BaseColumns ==
    [n \in RelNames |->
        CASE n = nm.u -> <<Col(nm.id, TRUE), Col(nm.t_id, FALSE)>>
          [] n = nm.v -> <<Col(nm.x, FALSE)>>
          [] OTHER -> <<Col(nm.id, TRUE), Col(nm.x, FALSE)>>]

BaseFks ==
    [n \in RelNames |->
        IF n = nm.u THEN <<Fk(<<"u", "_", "t", "_", "f", "k">>, nm.t_id, nm.t, nm.id)>>
        ELSE <<>>]

BaseIndexes ==
    [n \in RelNames |->
        IF n = nm.t THEN <<Ix(<<"t", "_", "p", "k">>, TRUE, TRUE, "", <<nm.id>>)>>
        ELSE <<>>]

BaseDb ==
    [enums |-> <<<<"e">>>>, procs |-> <<<<"p">>>>,
     tables |-> <<Tab(nm.t), Tab(nm.u)>>, views |-> <<Tab(nm.v)>>,
     columns |-> BaseColumns, fks |-> BaseFks, indexes |-> BaseIndexes]

\* Control flow: which optional adapter functions are set, with and without
\* enums and procedures in the catalog.
FlowInputs ==
    {[args |-> [BaseArgs EXCEPT !.HasEnumList = he, !.HasProcList = hp, !.Sqlx = sx],
      db |-> [BaseDb EXCEPT !.enums = en, !.procs = pr]] :
        he \in BOOLEAN, hp \in BOOLEAN, sx \in BOOLEAN,
        en \in {<<>>, <<<<"e">>, <<"f">>>>}, pr \in {<<>>, <<<<"p">>>>}}

\* Relations: tables and views that share names or not, with ignore lists
\* that match in another case.
RelInputs ==
    {[args |-> [BaseArgs EXCEPT !.IgnoreTables = it, !.IgnoreFields = if],
      db |-> [BaseDb EXCEPT !.tables = tl, !.views = vl,
                            !.fks = [n \in RelNames |-> <<>>]]] :
        it \in {<<>>, <<<<"T">>>>, <<<<"U">>, <<"v">>>>},
        if \in {<<>>, <<<<"I", "D">>>>, <<<<"X">>, <<"Id">>>>},
        tl \in {<<Tab(nm.t)>>, <<Tab(nm.t), Tab(nm.u)>>, <<Tab(<<"T">>), Tab(nm.t)>>},
        vl \in {<<>>, <<Tab(nm.t)>>, <<Tab(nm.v), Tab(nm.t)>>}}


\* Foreign keys: rows of u that reference a column of t by name or by no
\* name, a table that is not in the catalog, or share a name, with ignore
\* lists that remove the owning or the referenced column.
FkInputs ==
    {[args |-> [BaseArgs EXCEPT !.IgnoreFields = if, !.Sqlx = sx, !.DSN = dsn],
      db |-> [BaseDb EXCEPT !.enums = <<>>, !.procs = <<>>, !.views = <<>>,
                            !.fks = [n \in RelNames |-> IF n = nm.u THEN fl ELSE <<>>]]] :
        if \in {<<>>, <<<<"X">>>>, <<<<"T", "_", "I", "D">>>>, <<<<"I", "D">>>>},
        sx \in BOOLEAN,
        dsn \in {"postgres", "cockroachdb"},
        fl \in {<<Fk(nm.fk, nm.t_id, nm.t, nm.id)>>,
                <<Fk(<<>>, nm.t_id, nm.t, nm.x)>>,
                <<Fk(nm.fk, nm.t_id, <<"w">>, nm.id)>>,
                <<Fk(nm.fk, nm.t_id, nm.t, nm.id), Fk(nm.fk, nm.id, nm.t, nm.id)>>,
                <<Fk(nm.fk, nm.t_id, nm.t, <<>>)>>,
                <<Fk(<<"f", "k">>, nm.id, <<"w">>, nm.id), Fk(nm.fk, nm.t_id, nm.t, nm.id)>>}}
    \cup
    \* two relations whose constraints have the same name
    {[args |-> [BaseArgs EXCEPT !.Sqlx = sx],
      db |-> [BaseDb EXCEPT !.enums = <<>>, !.procs = <<>>, !.views = <<>>,
                            !.fks = [n \in RelNames |->
                                        IF n = nm.u THEN <<Fk(nm.fk, nm.t_id, nm.t, nm.id)>>
                                        ELSE IF n = nm.t THEN <<Fk(nm.fk, nm.x, nm.u, nm.id)>>
                                        ELSE <<>>]]] :
        sx \in BOOLEAN}

\* Indexes: the index rows of t, with ignore lists that remove an indexed
\* column.
IxInputs ==
    {[args |-> [BaseArgs EXCEPT !.IgnoreFields = if, !.LoaderType = lt],
      db |-> [BaseDb EXCEPT !.enums = <<>>, !.procs = <<>>, !.views = <<>>,
                            !.tables = <<Tab(nm.t)>>,
                            !.fks = [n \in RelNames |-> <<>>],
                            !.indexes = [n \in RelNames |-> IF n = nm.t THEN il ELSE <<>>]]] :
        if \in {<<>>, <<<<"X">>>>, <<<<"I", "D">>>>},
        lt \in {"postgres", "ora"},
        il \in {<<>>,
                <<Ix(<<"t", "_", "x">>, FALSE, FALSE, "c", <<nm.x>>)>>,
                <<Ix(<<"t", "_", "p", "k">>, TRUE, TRUE, "", <<nm.id>>)>>,
                <<Ix(<<"t", "_", "i", "d", "_", "x">>, TRUE, FALSE, "pk", <<nm.id, nm.x>>)>>}}

Inputs == FlowInputs \cup RelInputs \cup FkInputs \cup IxInputs

\* The variables of every program but unit are as they are when that
\* program has not been called.
Idle(unit) ==
    /\ unit # "LoadSchema" =>
        /\ args = BaseArgs
        /\ db = BaseDb
        /\ pc = <<>>
        /\ status = "idle"
        /\ err = NoErr
        /\ log = <<>>
        /\ history = {}
        /\ fault = {}
        /\ tableMap = <<>>
        /\ viewMap = <<>>
        /\ fkMap = <<>>
        /\ ixMap = <<>>
    /\ unit # "PgQueryColumns" =>
        /\ qpc = "idle"
        /\ catalog = {}
        /\ xoid = ""
        /\ qresult = <<>>
        /\ qerr = Nil
        /\ qret = [cols |-> <<>>, err |-> Nil]
        /\ qlog = <<>>
        /\ qcalls = 0
    /\ unit # "PgIndexColumns" =>
        /\ ixpc = "idle"
        /\ ixin = <<>>
        /\ ixret = [cols |-> <<>>, err |-> <<>>]
        /\ ixfields = <<>>
    /\ unit # "Initialisms" =>
        /\ ini = [m |-> {}, max |-> 0]
        /\ sncall = <<>>
    /\ unit # "PgTables" =>
        /\ tbin = <<>>
        /\ tbret = <<>>
    /\ unit # "PgParseType" =>
        /\ ptargs = <<>>
        /\ ptin = <<>>
        /\ ptlog = <<>>
        /\ ptslice = FALSE
        /\ pttext = <<>>
        /\ pterr = "nil"

Init ==
    /\ \E in \in Inputs : args = in.args /\ db = in.db
    /\ pc = <<>>
    /\ status = "running"
    /\ err = NoErr
    /\ log = <<>>
    /\ history = {}
    /\ fault = {}
    /\ tableMap = <<>>
    /\ viewMap = <<>>
    /\ fkMap = <<>>
    /\ ixMap = <<>>
    /\ Idle("LoadSchema")

Next ==
    \/ LoadEnumsPhase
    \/ LoadProcsPhase
    \/ LoadTablesPhase
    \/ LoadViewsPhase
    \/ MergePhase
    \/ LoadForeignKeysPhase
    \/ LoadIndexesPhase

Spec == Init /\ [][Next]_vars

(***************************************************************************)
(* PgIndexColumns and TypeLoader.LoadIndexColumns                          *)
(***************************************************************************)

\* The longest order string (PgGetColOrder's Ord) of an input.
MaxOrdLen == 3

Digits == <<"0", "1", "2", "3", "4", "5", "6", "7", "8", "9">>

IsDigit(c) == \E i \in DOMAIN Digits : Digits[i] = c

\* strings.Split(s, sep) for a one-character separator
RECURSIVE Split(_, _)
Split(s, sep) ==
    IF \A i \in DOMAIN s : s[i] # sep THEN <<s>>
    ELSE The({<<SubSeq(s, 1, i - 1)>>
                \o The({Split(rest, sep) : rest \in {SubSeq(s, i + 1, Len(s))}}) :
                i \in {CHOOSE i \in DOMAIN s :
                        s[i] = sep /\ \A j \in 1..(i - 1) : s[j] # sep}})

\* Whether strconv.Atoi(v) returns no error (v has no sign here).
AtoiOk(v) == v # <<>> /\ \A i \in DOMAIN v : IsDigit(v[i])

\* The int strconv.Atoi(v) returns.
RECURSIVE Atoi(_)
Atoi(v) ==
    IF v = <<>> THEN 0
    ELSE The({Atoi(front) : front \in {SubSeq(v, 1, Len(v) - 1)}}) * 10
            + (CHOOSE i \in DOMAIN Digits : Digits[i] = v[Len(v)]) - 1

\* A natural number as %d prints it.
RECURSIVE Itoa(_)
Itoa(n) ==
    IF n < 10 THEN <<Digits[n + 1]>>
    ELSE The({Itoa(q) : q \in {n \div 10}}) \o <<Digits[(n % 10) + 1]>>

\* "build schema name used in errors"
SchemaPrefix(schema) == IF schema # <<>> THEN schema \o <<".">> ELSE schema

\* fmt.Errorf("could not convert %s%s index %s column %s to int", s, table, index, v)
ConvertErr(in, v) ==
    <<"could not convert ", SchemaPrefix(in.schema) \o in.table, " index ", in.index,
      " column ", v, " to int">>

\* fmt.Errorf("could not find %s%s index %s column id %d", s, table, index, cid)
FindErr(in, cid) ==
    <<"could not find ", SchemaPrefix(in.schema) \o in.table, " index ", in.index,
      " column id ", Itoa(cid)>>

\* The errors of models.PgIndexColumns and models.PgGetColOrder.
IndexColumnsErr == <<"models.PgIndexColumns failed">>
ColOrderErr == <<"models.PgGetColOrder failed">>

\* "find column": whether a column of cols has the id cid, and the first one.
HasCid(cols, cid) == \E i \in DOMAIN cols : cols[i].Cid = cid

FirstWithCid(cols, cid) ==
    cols[CHOOSE i \in DOMAIN cols :
            cols[i].Cid = cid /\ \A j \in 1..(i - 1) : cols[j].Cid # cid]

\* The error the loop body of PgIndexColumns returns for the token v, or nil.
OrdinalErr(in, v) ==
    IF ~AtoiOk(v) THEN ConvertErr(in, v)
    ELSE IF ~HasCid(in.cols, Atoi(v)) THEN FindErr(in, Atoi(v))
    ELSE NoErr

PgIndexColumnsOrder_ListingOrder(in, toks) == [cols |-> in.cols, err |-> NoErr]

PgIndexColumnsOrder_SkipMissing(in, toks) ==
    [cols |-> [i \in DOMAIN SelectSeq(toks, LAMBDA v : OrdinalErr(in, v) = NoErr) |->
                FirstWithCid(in.cols,
                    Atoi(SelectSeq(toks, LAMBDA v : OrdinalErr(in, v) = NoErr)[i]))],
     err |-> NoErr]

\* "put cols in order using colOrder": the loop of PgIndexColumns over the
\* tokens of the order string; it returns at the first token it cannot place.
PgIndexColumnsOrder(in, toks) ==
    IF \E i \in DOMAIN toks : OrdinalErr(in, toks[i]) # NoErr
    THEN [cols |-> <<>>,
          err |-> OrdinalErr(in, toks[CHOOSE i \in DOMAIN toks :
                    /\ OrdinalErr(in, toks[i]) # NoErr
                    /\ \A j \in 1..(i - 1) : OrdinalErr(in, toks[j]) = NoErr])]
    ELSE [cols |-> [i \in DOMAIN toks |-> FirstWithCid(in.cols, Atoi(toks[i]))],
          err |-> NoErr]

\* loaders.PgIndexColumns: [cols, err]; fail names the query that fails.
PgIndexColumns(in, fail) ==
    IF fail = "cols" THEN [cols |-> <<>>, err |-> IndexColumnsErr]
    ELSE IF fail = "ord" THEN [cols |-> <<>>, err |-> ColOrderErr]
    ELSE The({PgIndexColumnsOrder(in, toks) : toks \in {Split(in.ord, " ")}})

\* TypeLoader.LoadIndexColumns with the postgres adapter.
LoadIndexColumnsCall ==
    /\ ixpc = "start"
    /\ \E fail \in {"none", "cols", "ord"} :
       \E r \in {PgIndexColumns(ixin, fail)} :
            /\ ixret' = r
            /\ ixpc' = IF r.err # NoErr THEN "failed" ELSE "loaded"
            /\ ixfields' = IF r.err # NoErr THEN <<>>
                           ELSE IndexFields([Fields |-> ixin.fields], r.cols)
    /\ UNCHANGED ixin
    /\ UNCHANGED <<qcVars, lsVars, ptVars, snVars, tbVars>>

\* A column of the catalog listing of an index.
IndexColumn(cid, name) == [Cid |-> cid, ColumnName |-> name]

\* Indexes over the columns a (1), b (2), c (3) of relation t, whose catalog
\* listing comes in any order, with and without a schema name, and with
\* column c a field of the relation or not.
ICInputs ==
    {[schema |-> sc, table |-> nm.t, index |-> <<"i", "x">>, cols |-> cl,
      ord |-> od, fields |-> fl] :
        sc \in {<<>>, <<"p">>},
        cl \in {<<IndexColumn(1, <<"a">>), IndexColumn(2, <<"b">>)>>,
                <<IndexColumn(2, <<"b">>), IndexColumn(1, <<"a">>)>>,
                <<IndexColumn(3, <<"c">>), IndexColumn(1, <<"a">>),
                  IndexColumn(2, <<"b">>)>>},
        od \in UNION {[1..k -> {"1", "2", "3", " ", "x"}] : k \in 0..MaxOrdLen},
        fl \in {<<NewField(Col(<<"a">>, TRUE)), NewField(Col(<<"b">>, FALSE)),
                  NewField(Col(<<"c">>, FALSE))>>,
                <<NewField(Col(<<"a">>, TRUE)), NewField(Col(<<"b">>, FALSE))>>}}

InitIC ==
    /\ ixpc = "start"
    /\ ixin \in ICInputs
    /\ ixret = [cols |-> <<>>, err |-> <<>>]
    /\ ixfields = <<>>
    /\ Idle("PgIndexColumns")

NextIC == LoadIndexColumnsCall

SpecIC == InitIC /\ [][NextIC]_vars

(***************************************************************************)
(* PgQueryColumns                                                          *)
(***************************************************************************)

\* Calls of PgQueryColumns one behaviour makes.
MaxCalls == 2

\* Values GenRandomID can return (two calls may draw the same one).
XoIds == {"_xo_a", "_xo_b", "_xo_c"}

\* Column lists the catalog can report for the statement under inspection.
QueryColumnLists ==
    { <<[ColumnName |-> <<"i", "d">>, DataType |-> "integer"]>>,
      <<[ColumnName |-> <<"i", "d">>, DataType |-> "integer"],
        [ColumnName |-> <<"d", "o", "c">>, DataType |-> "jsonb"]>>,
      <<[ColumnName |-> <<"m">>, DataType |-> "json"]>> }

CreateErr == "create view failed"
LookupErr == "schema lookup failed"
ColumnErr == "column load failed"
DropErr == "drop view failed"

\* The json/jsonb rewrite of the loaded columns: DataType becomes ColumnName.
QCRewriteJson(cols) ==
    [i \in DOMAIN cols |->
        IF cols[i].DataType \in {"json", "jsonb"}
        THEN [cols[i] EXCEPT !.DataType = cols[i].ColumnName]
        ELSE cols[i]]

QCReturnAfterDrop_IgnoreDropErr(result, droperr) ==
    [cols |-> result, err |-> Nil]

\* What the call returns after the DROP VIEW statement, from the local
\* result and the DROP's error (err is overwritten by the DROP's outcome).
QCReturnAfterDrop(result, droperr) ==
    IF droperr # Nil THEN [cols |-> <<>>, err |-> droperr]
    ELSE [cols |-> result, err |-> droperr]

QCEntry(stmt, ok) == [stmt |-> stmt, ok |-> ok]

\* CREATE VIEW <xoid> AS (<inspect>): a new call starts.
QCCreateView ==
    /\ qpc \in {"idle", "returned"}
    /\ qcalls < MaxCalls
    /\ \E id \in XoIds, ok \in BOOLEAN :
        LET created == ok /\ id \notin catalog IN
        /\ xoid' = id
        /\ qcalls' = qcalls + 1
        /\ qlog' = <<QCEntry("create", created)>>
        /\ qresult' = <<>>
        /\ IF created
           THEN /\ catalog' = catalog \cup {id}
                /\ qerr' = Nil
                /\ qpc' = "created"
                /\ qret' = [cols |-> <<>>, err |-> Nil]
           ELSE /\ catalog' = catalog
                /\ qerr' = CreateErr
                /\ qpc' = "returned"
                /\ qret' = [cols |-> <<>>, err |-> CreateErr]
    /\ UNCHANGED <<lsVars, icVars, ptVars, snVars, tbVars>>

\* SELECT n.nspname ... WHERE c.relname = <xoid>.
QCLookupSchema ==
    /\ qpc = "created"
    /\ \E ok \in BOOLEAN :
        /\ qlog' = Append(qlog, QCEntry("lookup", ok))
        /\ IF ok
           THEN /\ qerr' = Nil
                /\ qpc' = "looked"
                /\ UNCHANGED qret
           ELSE /\ qerr' = LookupErr
                /\ qpc' = "returned"
                /\ qret' = [cols |-> <<>>, err |-> LookupErr]
    /\ UNCHANGED <<catalog, xoid, qresult, qcalls>>
    /\ UNCHANGED <<lsVars, icVars, ptVars, snVars, tbVars>>

\* result, err := models.PgTableColumns(...), then the json/jsonb rewrite.
QCLoadColumns ==
    /\ qpc = "looked"
    /\ \/ \E cols \in QueryColumnLists :
            /\ qresult' = QCRewriteJson(cols)
            /\ qerr' = Nil
            /\ qlog' = Append(qlog, QCEntry("columns", TRUE))
       \/ /\ qresult' = <<>>
          /\ qerr' = ColumnErr
          /\ qlog' = Append(qlog, QCEntry("columns", FALSE))
    /\ qpc' = "loaded"
    /\ UNCHANGED <<catalog, xoid, qret, qcalls>>
    /\ UNCHANGED <<lsVars, icVars, ptVars, snVars, tbVars>>

\* DROP VIEW <xoid>, and the return that follows it.
QCDropView ==
    /\ qpc = "loaded"
    /\ \E ok \in BOOLEAN :
        LET droperr == IF ok THEN Nil ELSE DropErr IN
        /\ qlog' = Append(qlog, QCEntry("drop", ok))
        /\ catalog' = IF ok THEN catalog \ {xoid} ELSE catalog
        /\ qerr' = droperr
        /\ qret' = QCReturnAfterDrop(qresult, droperr)
    /\ qpc' = "returned"
    /\ UNCHANGED <<xoid, qresult, qcalls>>
    /\ UNCHANGED <<lsVars, icVars, ptVars, snVars, tbVars>>

InitQC == Idle("")

NextQC ==
    \/ QCCreateView
    \/ QCLookupSchema
    \/ QCLoadColumns
    \/ QCDropView

SpecQC == InitQC /\ [][NextQC]_vars

(***************************************************************************)
(* PgParseType (loaders/postgres.go) and the mapping tables of             *)
(* loaders/postgrestypes. Type descriptors and Go type expressions are     *)
(* strings; Chars and Join convert between a string and its characters.    *)
(***************************************************************************)

\* The calls of PgParseType in one run.
MaxResolutions == 3

\* The characters of the string s.
Chars(s) == [i \in 1..Len(s) |-> SubSeq(s, i, i)]

\* The concatenation of the strings of the sequence ss.
RECURSIVE Join(_)
Join(ss) ==
    IF ss = <<>> THEN ""
    ELSE ss[1] \o The({Join(rest) : rest \in {Tail(ss)}})

\* strings.HasPrefix
HasPrefix(s, prefix) == Len(s) >= Len(prefix) /\ SubSeq(s, 1, Len(prefix)) = prefix

\* strings.HasSuffix
HasSuffix(s, suffix) ==
    Len(s) >= Len(suffix) /\ SubSeq(s, Len(s) - Len(suffix) + 1, Len(s)) = suffix

\* strings.ToUpper
ToUpper(s) ==
    [i \in DOMAIN s |->
        IF \E k \in DOMAIN LowerChars : LowerChars[k] = s[i]
        THEN UpperChars[CHOOSE k \in DOMAIN LowerChars : LowerChars[k] = s[i]]
        ELSE s[i]]

\* snaker.IsIdentifierChar, for the ASCII characters
IsIdentifierChar(ch) ==
    \/ \E k \in DOMAIN LowerChars : LowerChars[k] = ch
    \/ \E k \in DOMAIN UpperChars : UpperChars[k] = ch
    \/ ch = "_"
    \/ IsDigit(ch)

\* snaker.ToIdentifier over the characters of s: invalid characters become
\* underscores (subUnderscores), runs of underscores collapse to one
\* (underscoreRE), the leading digits and underscores go (leadingRE,
\* TrimLeft) and so does a trailing underscore (TrimRight). The spaces
\* TrimSpace removes are at the two ends, where the underscores they would
\* become are removed as well.
ToIdentifier(s) ==
    The({The({The({IF rest # <<>> /\ rest[Len(rest)] = "_"
                   THEN SubSeq(rest, 1, Len(rest) - 1)
                   ELSE rest :
                rest \in {SubSeq(coll,
                            IF \A i \in DOMAIN coll : IsDigit(coll[i]) \/ coll[i] = "_"
                            THEN Len(coll) + 1
                            ELSE CHOOSE i \in DOMAIN coll :
                                    /\ ~(IsDigit(coll[i]) \/ coll[i] = "_")
                                    /\ \A j \in 1..(i - 1) :
                                            IsDigit(coll[j]) \/ coll[j] = "_",
                            Len(coll))}}) :
            coll \in {[k \in DOMAIN SelectSeq([i \in DOMAIN sub |-> i],
                                LAMBDA i : ~(sub[i] = "_" /\ i > 1 /\ sub[i - 1] = "_"))
                        |-> sub[SelectSeq([i \in DOMAIN sub |-> i],
                                LAMBDA i : ~(sub[i] = "_" /\ i > 1 /\ sub[i - 1] = "_"))[k]]]}}) :
        sub \in {[i \in DOMAIN s |-> IF IsIdentifierChar(s[i]) THEN s[i] ELSE "_"]}})

\* snaker.CommonInitialisms, the initialisms of the default Initialisms
CommonInitialisms ==
    {"ACL", "API", "ASCII", "CPU", "CSS", "DNS", "EOF", "GUID", "HTML", "HTTPS",
     "HTTP", "ID", "IP", "JSON", "LHS", "QPS", "RAM", "RHS", "RPC", "SLA", "SMTP",
     "SQL", "SSH", "TCP", "TLS", "TTL", "UDP", "UID", "UI", "URI", "URL", "UTC",
     "UTF8", "UUID", "VM", "XML", "XMPP", "XSRF", "XSS", "YAML"}

\* Initialisms.SnakeToCamel over the characters of name; the result is a
\* string.
SnakeToCamel(name) ==
    The({Join([i \in DOMAIN words |->
                IF words[i] = <<>> THEN ""
                ELSE IF Join(ToUpper(words[i])) \in CommonInitialisms
                THEN Join(ToUpper(words[i]))
                ELSE Join(ToUpper(SubSeq(words[i], 1, 1))
                            \o ToLower(SubSeq(words[i], 2, Len(words[i]))))]) :
        words \in {Split(name, "_")}})

\* snaker.SnakeToCamelIdentifier of the string name
SnakeToCamelIdentifier(name) ==
    The({SnakeToCamel(id) : id \in {ToIdentifier(Chars(name))}})

\* ArgType.ParsePrecision: a trailing "(precision)" or "(precision,scale)"
\* is cut off the descriptor and its first number is the precision.
ParsePrecision(dt) ==
    IF /\ HasSuffix(dt, ")")
       /\ \E i \in 1..Len(dt) :
            /\ SubSeq(dt, i, i) = "("
            /\ \A j \in (i + 1)..(Len(dt) - 1) : SubSeq(dt, j, j) # "("
            /\ Len(Split(Chars(SubSeq(dt, i + 1, Len(dt) - 1)), ",")) \in {1, 2}
            /\ \A p \in Range(Split(Chars(SubSeq(dt, i + 1, Len(dt) - 1)), ",")) :
                    AtoiOk(p)
    THEN The({[typ |-> SubSeq(dt, 1, i - 1),
               precision |-> Atoi(Split(Chars(SubSeq(dt, i + 1, Len(dt) - 1)), ",")[1])] :
            i \in {CHOOSE i \in 1..Len(dt) :
                    /\ SubSeq(dt, i, i) = "("
                    /\ \A j \in (i + 1)..(Len(dt) - 1) : SubSeq(dt, j, j) # "("}})
    ELSE [typ |-> dt, precision |-> 0]

\* What a mapping function returns, with the value it leaves in *asSlice.
Mapped(typ, nilVal, ok, asSlice) ==
    [typ |-> typ, nilVal |-> nilVal, ok |-> ok, asSlice |-> asSlice]

\* postgrestypes.postgresNameToGoName (PgtypeModeStd)
postgresNameToGoName(dt, nullable, asSlice, int32Type, uint32Type) ==
    CASE dt = "boolean" ->
            IF nullable THEN Mapped("sql.NullBool", "sql.NullBool{}", TRUE, asSlice)
            ELSE Mapped("bool", "false", TRUE, asSlice)
      [] dt \in {"character", "character varying", "text", "money", "inet"} ->
            IF nullable THEN Mapped("sql.NullString", "sql.NullString{}", TRUE, asSlice)
            ELSE Mapped("string", "\"\"", TRUE, asSlice)
      [] dt = "smallint" ->
            IF nullable THEN Mapped("sql.NullInt64", "sql.NullInt64{}", TRUE, asSlice)
            ELSE Mapped("int16", "0", TRUE, asSlice)
      [] dt = "integer" ->
            IF nullable THEN Mapped("sql.NullInt64", "sql.NullInt64{}", TRUE, asSlice)
            ELSE Mapped(int32Type, "0", TRUE, asSlice)
      [] dt = "bigint" ->
            IF nullable THEN Mapped("sql.NullInt64", "sql.NullInt64{}", TRUE, asSlice)
            ELSE Mapped("int64", "0", TRUE, asSlice)
      [] dt = "smallserial" ->
            IF nullable THEN Mapped("sql.NullInt64", "sql.NullInt64{}", TRUE, asSlice)
            ELSE Mapped("uint16", "0", TRUE, asSlice)
      [] dt = "serial" ->
            IF nullable THEN Mapped("sql.NullInt64", "sql.NullInt64{}", TRUE, asSlice)
            ELSE Mapped(uint32Type, "0", TRUE, asSlice)
      [] dt = "bigserial" ->
            IF nullable THEN Mapped("sql.NullInt64", "sql.NullInt64{}", TRUE, asSlice)
            ELSE Mapped("uint64", "0", TRUE, asSlice)
      [] dt = "real" ->
            IF nullable THEN Mapped("sql.NullFloat64", "sql.NullFloat64{}", TRUE, asSlice)
            ELSE Mapped("float32", "0.0", TRUE, asSlice)
      [] dt \in {"numeric", "double precision"} ->
            IF nullable THEN Mapped("sql.NullFloat64", "sql.NullFloat64{}", TRUE, asSlice)
            ELSE Mapped("float64", "0.0", TRUE, asSlice)
      [] dt = "bytea" -> Mapped("byte", "", TRUE, TRUE)
      [] dt \in {"date", "timestamp with time zone", "time with time zone",
                 "time without time zone", "timestamp without time zone"} ->
            IF nullable THEN Mapped("pq.NullTime", "pq.NullTime{}", TRUE, asSlice)
            ELSE Mapped("time.Time", "time.Time{}", TRUE, asSlice)
      [] dt = "interval" -> Mapped("*time.Duration", "", TRUE, asSlice)
      [] dt \in {"\"char\"", "bit"} -> Mapped("uint8", "uint8(0)", TRUE, asSlice)
      [] dt \in {"\"any\"", "bit varying"} -> Mapped("byte", "", TRUE, TRUE)
      [] dt = "hstore" -> Mapped("hstore.Hstore", "", TRUE, asSlice)
      [] dt = "uuid" -> Mapped("uuid.UUID", "uuid.New()", TRUE, asSlice)
      [] OTHER -> Mapped("", "", FALSE, asSlice)

\* postgrestypes.postgresNameToInternalPgtypeName
postgresNameToInternalPgtypeName(dt, asSlice, int32Type, uint32Type) ==
    CASE dt = "boolean" -> Mapped("bool", "false", TRUE, asSlice)
      [] dt = "inet" -> Mapped("*net.IPNet", "nil", TRUE, asSlice)
      [] dt = "character varying" -> Mapped("string", "\"\"", TRUE, asSlice)
      [] dt \in {"money", "text", "character"} -> Mapped("string", "\"\"", TRUE, asSlice)
      [] dt \in {"smallint", "smallserial"} -> Mapped("int16", "0", TRUE, asSlice)
      [] dt = "integer" -> Mapped(int32Type, "0", TRUE, asSlice)
      [] dt = "serial" -> Mapped(uint32Type, "0", TRUE, asSlice)
      [] dt \in {"bigint", "bigserial"} -> Mapped("int64", "0", TRUE, asSlice)
      [] dt = "real" -> Mapped("float32", "0", TRUE, asSlice)
      [] dt = "double precision" -> Mapped("float64", "0", TRUE, asSlice)
      [] dt = "numeric" -> Mapped("float64", "0.0", TRUE, asSlice)
      [] dt = "bytea" -> Mapped("[]byte", "[]", TRUE, asSlice)
      [] dt \in {"date", "timestamp without time zone", "timestamp with time zone"} ->
            Mapped("time.Time", "time.Time{}", TRUE, asSlice)
      [] dt \in {"time with time zone", "time without time zone"} ->
            Mapped("int64", "0", TRUE, asSlice)
      [] dt = "interval" -> Mapped("*time.Duration", "nil", TRUE, asSlice)
      [] dt = "\"char\"" -> Mapped("int8", "0", TRUE, asSlice)
      [] dt = "bit" -> Mapped("uint8", "uint8(0)", TRUE, asSlice)
      [] dt \in {"bit varying", "\"any\""} -> Mapped("byte", "nil", TRUE, TRUE)
      [] dt = "hstore" -> Mapped("hstore.Hstore", "nil", TRUE, asSlice)
      [] dt = "uuid" -> Mapped("[16]byte", "uuid.New()", TRUE, asSlice)
      [] OTHER -> Mapped("", "", FALSE, asSlice)

\* postgrestypes.postgresNameToPgtypeName, which leaves *asSlice alone
postgresNameToPgtypeName(dt, asSlice) ==
    The({IF typ = "" THEN Mapped("", "", FALSE, asSlice)
         ELSE Mapped(typ, typ \o "{Status: pgtype.Null}", TRUE, asSlice) :
        typ \in {CASE dt = "boolean" -> "pgtype.Bool"
                   [] dt = "inet" -> "pgtype.Inet"
                   [] dt = "character varying" -> "pgtype.Varchar"
                   [] dt \in {"money", "text", "character"} -> "pgtype.Text"
                   [] dt \in {"smallint", "smallserial"} -> "pgtype.Int2"
                   [] dt \in {"integer", "serial"} -> "pgtype.Int4"
                   [] dt \in {"bigint", "bigserial"} -> "pgtype.Int8"
                   [] dt = "real" -> "pgtype.Float4"
                   [] dt = "double precision" -> "pgtype.Float8"
                   [] dt = "numeric" -> "pgtype.Numeric"
                   [] dt = "bytea" -> "pgtype.Bytea"
                   [] dt = "date" -> "pgtype.Date"
                   [] dt = "timestamp without time zone" -> "pgtype.Timestamp"
                   [] dt = "timestamp with time zone" -> "pgtype.Timestamptz"
                   [] dt \in {"time with time zone", "time without time zone"} ->
                        "pgtype.Time"
                   [] dt = "interval" -> "pgtype.Interval"
                   [] dt = "\"char\"" -> "pgtype.QChar"
                   [] dt = "bit" -> "pgtype.Bit"
                   [] dt \in {"bit varying", "\"any\""} -> "pgtype.Varbit"
                   [] dt = "hstore" -> "pgtype.Hstore"
                   [] dt = "uuid" -> "pgtype.UUID"
                   [] OTHER -> ""}})

\* PgtypeMode.PostgresNameToPgtypeName
PostgresNameToPgtypeName(p, dt, nullable, asSlice, int32Type, uint32Type) ==
    CASE p = "PgtypeModeStd" ->
            postgresNameToGoName(dt, nullable, asSlice, int32Type, uint32Type)
      [] p = "PgtypeModeFull" -> postgresNameToPgtypeName(dt, asSlice)
      [] p = "PgtypeModePointer" ->
            The({IF nullable THEN Mapped("*" \o m.typ, "nil", m.ok, m.asSlice) ELSE m :
                m \in {postgresNameToInternalPgtypeName(dt, asSlice, int32Type,
                                                        uint32Type)}})
      [] p = "PgtypeModePgtype" ->
            IF nullable THEN postgresNameToPgtypeName(dt, asSlice)
            ELSE postgresNameToInternalPgtypeName(dt, asSlice, int32Type, uint32Type)

FallbackType_KeepsQualifier(a, dt) ==
    The({[typ |-> typ, nilVal |-> typ \o "{}"] : typ \in {SnakeToCamelIdentifier(dt)}})

\* The type and zero value PgParseType gives a descriptor the mapping does
\* not know.
FallbackType(a, dt) ==
    IF HasPrefix(dt, a.Schema \o ".")
    THEN The({[typ |-> typ, nilVal |-> typ \o "(0)"] :
            typ \in {SnakeToCamelIdentifier(SubSeq(dt, Len(a.Schema) + 2, Len(dt)))}})
    ELSE The({[typ |-> typ, nilVal |-> typ \o "{}"] :
            typ \in {SnakeToCamelIdentifier(dt)}})

AsSliceAtEntry_Leftover == ptslice

\* "asSlice := false": the value of the local flag when a call starts.
AsSliceAtEntry == FALSE

\* PgParseType: the precision, nilVal and typ it returns, and asSlice, the
\* value of its flag when it returns.
RECURSIVE PgParseType(_, _, _)
PgParseType(a, dt, nullable) ==
    IF HasPrefix(dt, "SETOF ")
    THEN The({[precision |-> 0, nilVal |-> "nil", typ |-> "[]" \o t.typ,
               asSlice |-> AsSliceAtEntry] :
            t \in {The({PgParseType(a, elem, FALSE) :
                        elem \in {SubSeq(dt, Len("SETOF ") + 1, Len(dt))}})}})
    ELSE The({The({The({IF r.typ = "string" /\ r.asSlice
                        THEN [precision |-> pp.precision, nilVal |-> "StringSlice{}",
                              typ |-> "StringSlice", asSlice |-> r.asSlice]
                        ELSE IF r.asSlice
                        THEN [precision |-> pp.precision, nilVal |-> "nil",
                              typ |-> "[]" \o r.typ, asSlice |-> r.asSlice]
                        ELSE [precision |-> pp.precision, nilVal |-> r.nilVal,
                              typ |-> r.typ, asSlice |-> r.asSlice] :
                    r \in {IF m.ok THEN m
                           ELSE The({Mapped(f.typ, f.nilVal, FALSE, m.asSlice) :
                                    f \in {FallbackType(a, pp.typ)}})}}) :
                m \in {PostgresNameToPgtypeName(a.PgtypeMode, pp.typ, nullable,
                            HasSuffix(dt, "[]") \/ AsSliceAtEntry,
                            a.Int32Type, a.Uint32Type)}}) :
            pp \in {ParsePrecision(IF HasSuffix(dt, "[]")
                                   THEN SubSeq(dt, 1, Len(dt) - 2) ELSE dt)}})

\* The type descriptors a catalog reports for the resolution under
\* observation.
Descriptors ==
    {"integer", "character varying", "character varying[]", "text[]", "integer[]",
     "numeric(10,2)", "character varying(255)", "SETOF integer", "bytea",
     "public.my_type", "other.my_type", "my_type[]", "public.user_id(3)"}

\* The resolutions that come between those under observation.
OtherResolutions ==
    {[dt |-> "bytea", nullable |-> FALSE],
     [dt |-> "\"any\"", nullable |-> TRUE],
     [dt |-> "my_type[]", nullable |-> FALSE]}

\* One call of PgParseType, for the descriptor under observation or for one
\* of the others.
PgParseTypeCall ==
    /\ Len(ptlog) < MaxResolutions
    /\ \E in \in {ptin} \cup OtherResolutions :
       \E r \in {PgParseType(ptargs, in.dt, in.nullable)} :
            /\ ptlog' = Append(ptlog,
                    [dt |-> in.dt, nullable |-> in.nullable,
                     mode |-> ptargs.PgtypeMode, precision |-> r.precision,
                     nilVal |-> r.nilVal, typ |-> r.typ])
            /\ ptslice' = r.asSlice
    /\ UNCHANGED <<ptargs, ptin, pttext, pterr>>
    /\ UNCHANGED <<qcVars, lsVars, icVars, snVars, tbVars>>

UnmarshalText_ResetsOnError(p, text) ==
    The({CASE lower \in {"std", "default"} -> [p |-> "PgtypeModeStd", err |-> "nil"]
           [] lower = "pgtype-full" -> [p |-> "PgtypeModeFull", err |-> "nil"]
           [] lower = "pointer" -> [p |-> "PgtypeModePointer", err |-> "nil"]
           [] lower = "pgtype" -> [p |-> "PgtypeModePgtype", err |-> "nil"]
           [] OTHER -> [p |-> "PgtypeModeStd", err |-> "invalid PgtypeMode"] :
        lower \in {Join(ToLower(Chars(text)))}})

\* PgtypeMode.UnmarshalText on the mode p: the mode afterwards and the
\* error returned.
UnmarshalText(p, text) ==
    The({CASE lower \in {"std", "default"} -> [p |-> "PgtypeModeStd", err |-> "nil"]
           [] lower = "pgtype-full" -> [p |-> "PgtypeModeFull", err |-> "nil"]
           [] lower = "pointer" -> [p |-> "PgtypeModePointer", err |-> "nil"]
           [] lower = "pgtype" -> [p |-> "PgtypeModePgtype", err |-> "nil"]
           [] OTHER -> [p |-> p, err |-> "invalid PgtypeMode"] :
        lower \in {Join(ToLower(Chars(text)))}})

\* One call of args.PgtypeMode.UnmarshalText; the mode is configured before
\* the loaders resolve a type.
UnmarshalTextCall ==
    /\ ptlog = <<>>
    /\ \E text \in {"std", "Default", "pgtype-full", "pointer", "PGTYPE", "full", ""} :
       \E r \in {UnmarshalText(ptargs.PgtypeMode, text)} :
            /\ ptargs' = [ptargs EXCEPT !.PgtypeMode = r.p]
            /\ pttext' = <<text>>
            /\ pterr' = r.err
    /\ UNCHANGED <<ptin, ptlog, ptslice>>
    /\ UNCHANGED <<qcVars, lsVars, icVars, snVars, tbVars>>

InitPT ==
    /\ \E mode \in {"PgtypeModeStd", "PgtypeModeFull", "PgtypeModePointer",
                      "PgtypeModePgtype"} :
            ptargs = [Schema |-> "public", PgtypeMode |-> mode,
                      Int32Type |-> "int", Uint32Type |-> "uint"]
    /\ \E dt \in Descriptors, nullable \in BOOLEAN :
            ptin = [dt |-> dt, nullable |-> nullable]
    /\ ptlog = <<>>
    /\ ptslice = FALSE
    /\ pttext = <<>>
    /\ pterr = "nil"
    /\ Idle("PgParseType")

NextPT == UnmarshalTextCall \/ PgParseTypeCall

SpecPT == InitPT /\ [][NextPT]_vars

(***************************************************************************)
(* snaker: Initialisms.New, Add, Peek and CamelToSnake                     *)
(* (src/unnamed/part_001). Names are strings; the loops run over their     *)
(* characters (runes). Of the characters that UTF-8 encodes in more than   *)
(* one byte, the inputs use the letters É and é, of two bytes each; the    *)
(* names converted hold no upper-case letter outside ASCII.                *)
(***************************************************************************)

\* len(s) of Go: the number of bytes of s.
len(s) == Len(s) + Cardinality({i \in 1..Len(s) : SubSeq(s, i, i) \in {"É", "é"}})

\* Initialisms.Add from the state in: the state afterwards and the error.
\* What precedes a refused string stays added.
RECURSIVE Add(_, _)
Add(in, initialisms) ==
    IF initialisms = <<>> THEN [ini |-> in, err |-> NoErr]
    ELSE IF len(initialisms[1]) < 2
    THEN [ini |-> in, err |-> <<"invalid initialism", initialisms[1]>>]
    ELSE The({Add(next, rest) :
                next \in {[m |-> in.m \cup {initialisms[1]},
                           max |-> IF in.max > len(initialisms[1]) THEN in.max
                                   ELSE len(initialisms[1])]},
                rest \in {Tail(initialisms)}})

Peek_Shortest(in, r) ==
    The({IF Len(r) < 2 \/ Len(z) < 2
            \/ \A i \in 2..Len(z) : Join(SubSeq(z, 1, i)) \notin in.m
         THEN ""
         ELSE Join(SubSeq(z, 1, CHOOSE i \in 2..Len(z) :
                        /\ Join(SubSeq(z, 1, i)) \in in.m
                        /\ \A j \in 2..(i - 1) : Join(SubSeq(z, 1, j)) \notin in.m)) :
        z \in {SubSeq(r, 1, CHOOSE n \in 0..Len(r) :
                    /\ n <= in.max
                    /\ \A i \in 1..n : \E k \in DOMAIN UpperChars : UpperChars[k] = r[i]
                    /\ (n < Len(r) /\ n < in.max)
                        => ~\E k \in DOMAIN UpperChars : UpperChars[k] = r[n + 1])}})

\* Initialisms.Peek over the runes r: z is the run of upper-case runes at
\* the start of r, of at most max runes; the longest prefix of z that is
\* registered is returned.
Peek(in, r) ==
    The({IF Len(r) < 2 \/ Len(z) < 2
            \/ \A i \in 2..Len(z) : Join(SubSeq(z, 1, i)) \notin in.m
         THEN ""
         ELSE Join(SubSeq(z, 1, CHOOSE i \in 2..Len(z) :
                        /\ Join(SubSeq(z, 1, i)) \in in.m
                        /\ \A j \in (i + 1)..Len(z) : Join(SubSeq(z, 1, j)) \notin in.m)) :
        z \in {SubSeq(r, 1, CHOOSE n \in 0..Len(r) :
                    /\ n <= in.max
                    /\ \A i \in 1..n : \E k \in DOMAIN UpperChars : UpperChars[k] = r[i]
                    /\ (n < Len(r) /\ n < in.max)
                        => ~\E k \in DOMAIN UpperChars : UpperChars[k] = r[n + 1])}})

Separator_AfterInitialismOnly(st, isUpper, isLetter) ==
    st.lastWasIsm /\ isLetter

\* "append _": whether CamelToSnake writes a separator before the rune it
\* is at.
Separator(st, isUpper, isLetter) ==
    \/ st.lastWasLetter /\ isUpper
    \/ st.lastWasIsm /\ isLetter

\* The loop of CamelToSnake from rune i on. st holds s, the three flags
\* lastWasUpper, lastWasLetter and lastWasIsm, and runs, the passes of the
\* loop so far: where each was at, whether it wrote a separator, and what
\* it appended.
RECURSIVE CamelToSnakeFrom(_, _, _, _)
CamelToSnakeFrom(in, r, i, st) ==
    IF i > Len(r) THEN st
    ELSE The({The({The({The({CamelToSnakeFrom(in, r, j, after) :
                        j \in {i + len(next)},
                        after \in {[s |-> st.s \o (IF sep THEN "_" ELSE "") \o next,
                                    lastWasIsm |-> len(next) > 1,
                                    lastWasUpper |-> isUpper,
                                    lastWasLetter |-> isLetter,
                                    runs |-> Append(st.runs,
                                                [at |-> i, sep |-> sep, next |-> next])]}}) :
                    next \in {IF ism # "" /\ (~st.lastWasUpper \/ st.lastWasIsm)
                              THEN ism ELSE r[i]}}) :
                ism \in {Peek(in, SubSeq(r, i, Len(r)))},
                sep \in {Separator(st, isUpper, isLetter)}}) :
            isUpper \in {\E k \in DOMAIN UpperChars : UpperChars[k] = r[i]},
            isLetter \in {\/ \E k \in DOMAIN UpperChars : UpperChars[k] = r[i]
                          \/ \E k \in DOMAIN LowerChars : LowerChars[k] = r[i]
                          \/ r[i] = "é"}})

\* Initialisms.CamelToSnake: the string returned and the passes of its loop.
CamelToSnake(in, name) ==
    IF name = "" THEN [s |-> "", runs |-> <<>>]
    ELSE The({[s |-> Join(ToLower(Chars(st.s))), runs |-> st.runs] :
            st \in {The({CamelToSnakeFrom(in, r, 1, first) :
                        r \in {Chars(name)},
                        first \in {[s |-> "", lastWasIsm |-> FALSE,
                                    lastWasUpper |-> FALSE, lastWasLetter |-> FALSE,
                                    runs |-> <<>>]}})}})

\* The argument lists of New and Add.
AddLists ==
    {<<>>} \cup {<<a>> : a \in {"ID", "HTTP", "HTTPS", "UTF8", "X", "É", ""}}
    \cup {<<a, b>> : a \in {"ID", "HTTP", "X"}, b \in {"HTTPS", "X", "É"}}

\* snaker.New: Add on a new Initialisms; on error the caller gets no object
\* and the one under observation stays.
NewCall ==
    /\ \E l \in AddLists :
       \E r \in {Add([m |-> {}, max |-> 0], l)} :
            /\ ini' = IF r.err = NoErr THEN r.ini ELSE ini
            /\ sncall' = [fn |-> "New", arg |-> l, err |-> r.err, out |-> "",
                          runs |-> <<>>]
    /\ UNCHANGED <<qcVars, lsVars, icVars, ptVars, tbVars>>

AddCall ==
    /\ \E l \in AddLists :
       \E r \in {Add(ini, l)} :
            /\ ini' = r.ini
            /\ sncall' = [fn |-> "Add", arg |-> l, err |-> r.err, out |-> "",
                          runs |-> <<>>]
    /\ UNCHANGED <<qcVars, lsVars, icVars, ptVars, tbVars>>

CamelToSnakeCall ==
    /\ \E name \in {"", "A", "AB", "myID", "a1B", "HTTP2", "AHTTP", "HTTPServer",
                    "HTTPSID", "UTF8Name", "UserIDs", "éab"} :
       \E r \in {CamelToSnake(ini, name)} :
            sncall' = [fn |-> "CamelToSnake", arg |-> <<name>>, err |-> NoErr,
                       out |-> r.s, runs |-> r.runs]
    /\ UNCHANGED ini
    /\ UNCHANGED <<qcVars, lsVars, icVars, ptVars, tbVars>>

InitSN == Idle("")

NextSN == NewCall \/ AddCall \/ CamelToSnakeCall

SpecSN == InitSN /\ [][NextSN]_vars

(***************************************************************************)
(* PgTables (loaders/postgres.go)                                          *)
(***************************************************************************)

\* PgTables with the error of every catalog query returned to the caller.
PgTables_PropagatesAll(in) ==
    IF in.fail # {}
    THEN [tables |-> <<>>,
          err |-> AdapterErr(CHOOSE q \in in.fail :
                                \/ q = "models.PgTables"
                                \/ /\ "models.PgTables" \notin in.fail
                                   /\ \/ q = "models.PgSequences"
                                      \/ "models.PgSequences" \notin in.fail,
                             in.schema)]
    ELSE [tables |-> [i \in DOMAIN in.rows |->
                [TableName |-> in.rows[i].TableName, Type |-> in.rows[i].Type,
                 ManualPk |->
                    /\ \A k \in DOMAIN in.sequences :
                            in.sequences[k] # in.rows[i].TableName
                    /\ \A k \in DOMAIN in.crAutoIncrements :
                            in.crAutoIncrements[k] # in.rows[i].TableName]],
          err |-> NoErr]

\* PgTables(db, schema, relkind): what it returns when the catalog of db is
\* in.rows, in.sequences, in.crAutoIncrements and the queries of in.fail fail.
\* A sequence and an auto-increment are given by their TableName.
PgTables(in) ==
    IF "models.PgTables" \in in.fail
    THEN [tables |-> <<>>, err |-> AdapterErr("models.PgTables", in.schema)]
    ELSE The({[tables |-> [i \in DOMAIN in.rows |->
                    [TableName |-> in.rows[i].TableName, Type |-> in.rows[i].Type,
                     ManualPk |->
                        /\ \A k \in DOMAIN sequences :
                                sequences[k] # in.rows[i].TableName
                        /\ \A k \in DOMAIN crAutoIncrements :
                                crAutoIncrements[k] # in.rows[i].TableName]],
               err |-> NoErr] :
            sequences \in {IF "models.PgSequences" \in in.fail
                           THEN <<>> ELSE in.sequences},
            crAutoIncrements \in {IF "models.CrAutoIncrements" \in in.fail
                                  THEN <<>> ELSE in.crAutoIncrements}})

\* Catalogs of a schema with the relations t and u of one relkind, the
\* relations that own a sequence, those with a cockroachdb auto-increment,
\* and the catalog queries that fail.
TBInputs ==
    {[schema |-> <<"p">>, relkind |-> rk,
      rows |-> [i \in DOMAIN ns |-> [TableName |-> ns[i], Type |-> rk]],
      sequences |-> sq, crAutoIncrements |-> cr, fail |-> fl] :
        rk \in {"r", "v"},
        ns \in {<<>>, <<nm.t>>, <<nm.t, nm.u>>, <<nm.u, nm.t>>},
        sq \in {<<>>, <<nm.t>>, <<nm.u>>, <<nm.t, nm.u>>, <<nm.v>>},
        cr \in {<<>>, <<nm.t>>, <<nm.u>>},
        fl \in SUBSET {"models.PgTables", "models.PgSequences",
                       "models.CrAutoIncrements"}}

PgTablesCall ==
    /\ \E in \in TBInputs :
        /\ tbin' = in
        /\ tbret' = PgTables(in)
    /\ UNCHANGED <<qcVars, lsVars, icVars, ptVars, snVars>>

InitTB == Idle("")

NextTB == PgTablesCall

SpecTB == InitTB /\ [][NextTB]_vars

\* The outcome of statement stmt in the running call; "none" when the call
\* did not execute it.
QCOutcome(stmt) ==
    IF \E i \in DOMAIN qlog : qlog[i].stmt = stmt
    THEN IF \E i \in DOMAIN qlog : qlog[i].stmt = stmt /\ qlog[i].ok
         THEN "ok" ELSE "failed"
    ELSE "none"

QCReturned == qpc = "returned"

\* C1: once CREATE VIEW has succeeded, DROP VIEW is executed on every exit
\* path of the call (schema lookup failed, column load failed, success).
C1_DropOnEveryExit ==
    (QCReturned /\ QCOutcome("create") = "ok") => QCOutcome("drop") # "none"

\* C2 as stated: when creation, schema lookup and column loading succeed, a
\* failing DROP VIEW does not fail the call and the loaded columns are
\* returned.
C2_DropFailureNotFatal ==
    (/\ QCReturned
     /\ QCOutcome("create") = "ok"
     /\ QCOutcome("lookup") = "ok"
     /\ QCOutcome("columns") = "ok")
    => qret = [cols |-> qresult, err |-> Nil]

\* C2 amended: when creation, schema lookup and column loading succeed, the
\* DROP VIEW is executed; the call returns the loaded columns with a nil
\* error when the DROP succeeds, and the DROP's error with no column list
\* when the DROP fails.
C2_DropFailureFailsCall ==
    (/\ QCReturned
     /\ QCOutcome("create") = "ok"
     /\ QCOutcome("lookup") = "ok"
     /\ QCOutcome("columns") = "ok")
    => /\ QCOutcome("drop") # "none"
       /\ qresult # <<>>
       /\ QCOutcome("drop") = "ok" => qret = [cols |-> qresult, err |-> Nil]
       /\ QCOutcome("drop") = "failed" => qret = [cols |-> <<>>, err |-> DropErr]

C2_Witness ==
    /\ QCReturned
    /\ QCOutcome("columns") = "ok"
    /\ QCOutcome("drop") = "failed"
    /\ qret.err = DropErr

\* C3: when the column-load query fails, the call returns that error,
\* whether or not the following DROP VIEW succeeds.
C3_ColumnErrorReturned ==
    (QCReturned /\ QCOutcome("columns") = "failed") => qret.err = ColumnErr

(***************************************************************************)
(* LoadSchema: phases, errors and optional functions                       *)
(***************************************************************************)

\* C4: LoadSchema runs its phases in the fixed order enums, procedures,
\* tables, views, merge, foreign keys, indexes: the phases run so far are
\* always a prefix of that list, and every step runs exactly the next phase
\* of the list (no phase twice, none out of order, no step back).
C4_FixedPhaseOrder ==
    /\ [](\E n \in 0..7 :
            pc = SubSeq(<<"enums", "procs", "tables", "views", "merge",
                          "foreignkeys", "indexes">>, 1, n))
    /\ [][/\ Len(pc) < 7
          /\ pc' = Append(pc, <<"enums", "procs", "tables", "views", "merge",
                                "foreignkeys", "indexes">>[Len(pc) + 1])]_vars

C4_Witness ==
    /\ status = "done"
    /\ pc = <<"enums", "procs", "tables", "views", "merge", "foreignkeys", "indexes">>

\* The phase that hands entities of a template kind to the backend.
C5_PhasesOfKind(kind) ==
    CASE kind = "enum" -> {"enums"}
      [] kind = "proc" -> {"procs"}
      [] kind = "type" -> {"tables", "views"}
      [] kind = "foreignkey" -> {"foreignkeys"}
      [] kind = "index" -> {"indexes"}

C6_AdapterErrorAborts ==
    /\ [](\A c \in fault :
            c[1] = "call" =>
                /\ status = "failed"
                /\ err = AdapterErr(c[2], c[3])
                /\ log[Len(log)] = c)
    /\ [][status = "running"]_vars

C6_Witness ==
    /\ status = "failed"
    /\ Len(pc) < 7
    /\ \E c \in fault : c[1] = "call" /\ c[2] = "EnumValueList" /\ err = AdapterErr(c[2], c[3])

\* C7: when the enum-list (procedure-list) function is unset, the enum
\* (procedure) phase makes no catalog query and executes no template, ends
\* without an error, and LoadSchema goes on with the following phase.
C7_UnsetListSkipsPhase ==
    /\ ~args.HasEnumList =>
        /\ ~\E c \in history : c[2] \in {"EnumList", "EnumValueList", "enum"}
        /\ Len(pc) = 1 => (status = "running" /\ err = NoErr /\ log = <<>>)
    /\ ~args.HasProcList =>
        /\ ~\E c \in history : c[2] \in {"ProcList", "ProcParamList", "proc"}
        /\ Len(pc) = 2 => (status = "running" /\ err = NoErr /\ log = <<>>)

C7_Witness ==
    /\ ~args.HasEnumList
    /\ ~args.HasProcList
    /\ db.enums # <<>>
    /\ db.procs # <<>>
    /\ status = "done"

(***************************************************************************)
(* LoadSchema: the relation namespace and the ignore lists                 *)
(***************************************************************************)

\* C8: the merge step leaves one relation per name, keyed by its own name:
\* the names are those of the tables and of the views, a name that a table
\* and a view share holds the view, and every table whose name no view
\* shares is kept unchanged.
C8_MergeViewsOverTables ==
    [][pc' = Append(pc, "merge") =>
        /\ DOMAIN tableMap' = (DOMAIN tableMap) \cup (DOMAIN viewMap)
        /\ \A k \in DOMAIN tableMap' : tableMap'[k].TableName = k
        /\ \A k \in DOMAIN viewMap : tableMap'[k] = viewMap[k]
        /\ \A k \in (DOMAIN tableMap) \ (DOMAIN viewMap) : tableMap'[k] = tableMap[k]]_vars

C8_Witness ==
    /\ Len(pc) = 5
    /\ \E i \in DOMAIN db.tables : db.tables[i].TableName = nm.t
    /\ nm.t \in DOMAIN viewMap
    /\ nm.t \in DOMAIN tableMap /\ tableMap[nm.t].RelType = "View"
    /\ nm.u \in DOMAIN tableMap /\ tableMap[nm.u].RelType = "Table"

\* Whether name equals an entry of the ignore list case-insensitively.
C9_OnList(list, name) ==
    \E i \in DOMAIN list : ToLower(list[i]) = ToLower(name)

\* The relations LoadSchema holds: the relation map and the view map.
C9_Relations ==
    {tableMap[k] : k \in DOMAIN tableMap} \cup {viewMap[k] : k \in DOMAIN viewMap}

\* The columns the catalog lists for a relation that are not on the
\* ignore-field list, as fields, in catalog order.
C9_KeptFields(name) ==
    [i \in DOMAIN SelectSeq(db.columns[name],
                            LAMBDA c : ~C9_OnList(args.IgnoreFields, c.ColumnName)) |->
        [Col |-> SelectSeq(db.columns[name],
                    LAMBDA c : ~C9_OnList(args.IgnoreFields, c.ColumnName))[i]]]

\* C9: no relation on the ignore-table list (in any case) is in the relation
\* map, no column on the ignore-field list (in any case) is a field, a
\* primary key or a side of a foreign key or an index field, and every
\* relation and column that is on neither list is kept.
C9_IgnoreListsCaseInsensitive ==
    /\ \A k \in (DOMAIN tableMap) \cup (DOMAIN viewMap) :
            ~C9_OnList(args.IgnoreTables, k)
    /\ \A t \in C9_Relations :
            /\ t.Fields = C9_KeptFields(t.TableName)
            /\ ~C9_OnList(args.IgnoreFields, t.PrimaryKey.Col.ColumnName)
            /\ \A i \in DOMAIN t.PrimaryKeyFields :
                    ~C9_OnList(args.IgnoreFields, t.PrimaryKeyFields[i].Col.ColumnName)
    /\ \A k \in DOMAIN fkMap :
            /\ ~C9_OnList(args.IgnoreFields, fkMap[k].Field.Col.ColumnName)
            /\ ~C9_OnList(args.IgnoreFields, fkMap[k].RefField.Col.ColumnName)
    /\ \A k \in DOMAIN ixMap : \A i \in DOMAIN ixMap[k].Fields :
            ~C9_OnList(args.IgnoreFields, ixMap[k].Fields[i].Col.ColumnName)
    /\ (Len(pc) > 3 \/ (Len(pc) = 3 /\ status = "running")) =>
            \A i \in DOMAIN db.tables :
                ~C9_OnList(args.IgnoreTables, db.tables[i].TableName)
                    => db.tables[i].TableName \in DOMAIN tableMap
    /\ (Len(pc) > 4 \/ (Len(pc) = 4 /\ status = "running")) =>
            \A i \in DOMAIN db.views :
                ~C9_OnList(args.IgnoreTables, db.views[i].TableName)
                    => db.views[i].TableName \in DOMAIN viewMap

C9_Witness ==
    /\ status = "done"
    /\ args.IgnoreTables = <<<<"U">>, <<"v">>>>
    /\ args.IgnoreFields = <<<<"I", "D">>>>
    /\ \E i \in DOMAIN db.tables : db.tables[i].TableName = nm.u
    /\ nm.u \notin DOMAIN tableMap
    /\ nm.t \in DOMAIN tableMap
    /\ tableMap[nm.t].Fields = <<[Col |-> [ColumnName |-> nm.x, IsPrimaryKey |-> FALSE]]>>
    /\ tableMap[nm.t].PrimaryKey = NilField

\* C10: a foreign-key row or an index column that names a column on the
\* ignore-field list never yields a foreign key or an index: no foreign key
\* of the foreign-key map comes from a row whose owning or referenced column
\* is ignored, and no index of the index map comes from a row one of whose
\* columns is ignored.
C10_IgnoredColumnFailsResolution ==
    /\ \A k \in DOMAIN fkMap :
            /\ ~C9_OnList(args.IgnoreFields, fkMap[k].ForeignKey.ColumnName)
            /\ ~C9_OnList(args.IgnoreFields, fkMap[k].ForeignKey.RefColumnName)
    /\ \A k \in DOMAIN ixMap :
        \A i \in DOMAIN db.indexes[ixMap[k].Type] :
            db.indexes[ixMap[k].Type][i].IndexName = ixMap[k].Index.IndexName =>
                \A j \in DOMAIN db.indexes[ixMap[k].Type][i].Columns :
                    ~C9_OnList(args.IgnoreFields,
                               db.indexes[ixMap[k].Type][i].Columns[j].ColumnName)

(***************************************************************************)
(* Foreign-key resolution                                                  *)
(***************************************************************************)

\* The foreign keys LoadSchema holds: those of the global map and those of
\* the per-relation lists.
C11_ForeignKeys ==
    {fkMap[k] : k \in DOMAIN fkMap}
        \cup UNION {Range(tableMap[t].ForeignKeys) : t \in DOMAIN tableMap}

\* C11: the owning field of every resolved foreign key is a field of the
\* owning relation, its referenced field is a field of the referenced
\* relation, and when the raw row names no referenced column the referenced
\* field is the referenced relation's primary key.
C11_ForeignKeyTotality ==
    \A fk \in C11_ForeignKeys :
        /\ fk.Type \in DOMAIN tableMap
        /\ fk.RefType \in DOMAIN tableMap
        /\ fk.Field # NilField
        /\ fk.RefField # NilField
        /\ fk.Field \in Range(tableMap[fk.Type].Fields)
        /\ fk.Field.Col.ColumnName = fk.ForeignKey.ColumnName
        /\ fk.RefField \in Range(tableMap[fk.RefType].Fields)
        /\ fk.ForeignKey.RefColumnName = <<>> =>
                fk.RefField = tableMap[fk.RefType].PrimaryKey

C11_Witness ==
    \E k \in DOMAIN fkMap :
        /\ fkMap[k].ForeignKey.RefColumnName = <<>>
        /\ fkMap[k].RefType = nm.t
        /\ fkMap[k].RefField = [Col |-> [ColumnName |-> nm.id, IsPrimaryKey |-> TRUE]]
        /\ fkMap[k].Field = [Col |-> [ColumnName |-> nm.t_id, IsPrimaryKey |-> FALSE]]

\* Whether a part of the raw row is missing from the relation map tm: its
\* owning field in relation t, its referenced relation, or its referenced
\* field (the named column and, failing that, the primary key).
C12_MissingPart(tm, t, row) ==
    \/ FindField(tm[t].Fields, row.ColumnName) = NilField
    \/ row.RefTableName \notin DOMAIN tm
    \/ /\ row.RefTableName \in DOMAIN tm
       /\ FindField(tm[row.RefTableName].Fields, row.RefColumnName) = NilField
       /\ tm[row.RefTableName].PrimaryKey = NilField

\* C12: when the foreign-key phase meets a raw row one of whose parts is
\* missing from the graph, in each of the three cases LoadSchema returns the
\* consistency error (it does not crash) and holds no foreign key.
C12_MissingPartIsConsistencyError ==
    (/\ pc = <<"enums", "procs", "tables", "views", "merge", "foreignkeys">>
     /\ fault = {}
     /\ \E t \in DOMAIN tableMap :
            \E i \in DOMAIN extractProperForeignKeys(db.fks[t], args.DSN) :
                C12_MissingPart(tableMap, t,
                                extractProperForeignKeys(db.fks[t], args.DSN)[i]))
        => (status = "failed" /\ err = ConsistencyErr /\ fkMap = <<>>)

\* The rows of a raw foreign-key list that the corrective pass must return.
C13_Kept(rows) ==
    IF args.DSN = "cockroachdb"
    THEN SelectSeq(rows, LAMBDA r : Contains(r.ForeignKeyName, r.ColumnName))
    ELSE rows

\* What identifies a raw row: its column and what it references.
C13_Row(fk) == <<fk.ColumnName, fk.RefTableName, fk.RefColumnName>>

\* C13: the rows that are resolved are, for a cockroachdb connection, exactly
\* the raw rows whose constraint name contains their column name, in their
\* original order, and for every other engine all the raw rows: the
\* per-relation list comes from exactly these rows in this order, and every
\* foreign key of the global map comes from one of them (a row the pass
\* removes is never resolved).
C13_CorrectivePassBeforeResolution ==
    /\ \A t \in DOMAIN tableMap :
            tableMap[t].Sqlx =>
                [i \in DOMAIN tableMap[t].ForeignKeys |->
                        C13_Row(tableMap[t].ForeignKeys[i].ForeignKey)]
                    = [i \in DOMAIN C13_Kept(db.fks[t]) |->
                        C13_Row(C13_Kept(db.fks[t])[i])]
    /\ \A k \in DOMAIN fkMap :
            \E i \in DOMAIN C13_Kept(db.fks[fkMap[k].Type]) :
                /\ C13_Row(C13_Kept(db.fks[fkMap[k].Type])[i]) = C13_Row(fkMap[k].ForeignKey)
                /\ C13_Kept(db.fks[fkMap[k].Type])[i].ForeignKeyName
                        \in {<<>>, fkMap[k].ForeignKey.ForeignKeyName}

C13_Witness ==
    /\ status = "done"
    /\ args.DSN = "cockroachdb"
    /\ args.Sqlx
    /\ Len(db.fks[nm.u]) = 2
    /\ ~Contains(db.fks[nm.u][1].ForeignKeyName, db.fks[nm.u][1].ColumnName)
    /\ Len(tableMap[nm.u].ForeignKeys) = 1
    /\ Cardinality(DOMAIN fkMap) = 1

\* The constraint name a resolved foreign key of relation t must carry: the
\* raw row's name, or <table>_<column>_fkey when the row has none.
C14_NameOf(t, row) ==
    IF row.ForeignKeyName = <<>>
    THEN t \o <<"_">> \o row.ColumnName \o <<"_", "f", "k", "e", "y">>
    ELSE row.ForeignKeyName

\* C14: the random suffix is in the keys of the global map and nowhere else.
\* For every relation and every draw of random numbers, GetTableForeignKeys
\* returns the same error and the same ordered list with a global map as
\* without one; every key of the global map is the constraint name of its
\* entry followed by "_" and a random number, and that name is the row's own
\* (or generated) name, the same as in the per-relation list.
C14_SuffixOnlyInMapKeys ==
    /\ Len(pc) >= 5 =>
        \A t \in DOMAIN tableMap :
        \A rnd \in [1..Len(db.fks[t]) -> RandNums] :
            /\ GetTableForeignKeys(tableMap, tableMap[t], TRUE, <<>>, 0,
                                   db.fks[t], rnd).foreignKeys
                = GetTableForeignKeys(tableMap, tableMap[t], FALSE, <<>>, 0,
                                      db.fks[t], rnd).foreignKeys
            /\ GetTableForeignKeys(tableMap, tableMap[t], TRUE, <<>>, 0,
                                   db.fks[t], rnd).err
                = GetTableForeignKeys(tableMap, tableMap[t], FALSE, <<>>, 0,
                                      db.fks[t], rnd).err
    /\ \A k \in DOMAIN fkMap :
        /\ \E r \in RandNums :
                k = fkMap[k].ForeignKey.ForeignKeyName \o <<"_">> \o r
        /\ \E i \in DOMAIN db.fks[fkMap[k].Type] :
                /\ C13_Row(db.fks[fkMap[k].Type][i]) = C13_Row(fkMap[k].ForeignKey)
                /\ fkMap[k].ForeignKey.ForeignKeyName
                        = C14_NameOf(fkMap[k].Type, db.fks[fkMap[k].Type][i])
        /\ args.Sqlx => fkMap[k] \in Range(tableMap[fkMap[k].Type].ForeignKeys)

C14_Witness ==
    /\ args.Sqlx
    /\ \E k \in DOMAIN fkMap :
        /\ k = <<"u", "_", "t", "_", "i", "d", "_", "f", "k", "e", "y", "_", "2">>
        /\ fkMap[k].ForeignKey.ForeignKeyName
                = <<"u", "_", "t", "_", "i", "d", "_", "f", "k", "e", "y">>
        /\ tableMap[nm.u].ForeignKeys = <<fkMap[k]>>

(***************************************************************************)
(* Index columns                                                           *)
(***************************************************************************)

\* The ordinals of the order string, as the order query wrote them.
C15_Ordinals == Split(ixin.ord, " ")

\* C15: for an index all of whose listed columns are fields of its relation,
\* the loaded Index.Fields has one field per ordinal of the order string, and
\* the i-th field is the column whose column id is the i-th ordinal, whatever
\* the order of the catalog's column listing.
C15_FieldsFollowOrdinals ==
    (/\ ixpc = "loaded"
     /\ \A i \in DOMAIN ixin.cols :
            \E j \in DOMAIN ixin.fields :
                ixin.fields[j].Col.ColumnName = ixin.cols[i].ColumnName)
        => /\ Len(ixfields) = Len(C15_Ordinals)
           /\ \A i \in DOMAIN ixfields :
                \E c \in DOMAIN ixin.cols :
                    /\ ixin.cols[c].Cid = Atoi(C15_Ordinals[i])
                    /\ ixin.cols[c].ColumnName = ixfields[i].Col.ColumnName
                    /\ ixfields[i] \in Range(ixin.fields)

C15_Witness ==
    /\ ixpc = "loaded"
    /\ ixin.ord = <<"2", " ", "1">>
    /\ ixin.cols[1].Cid = 1
    /\ ixin.cols[2].Cid = 2
    /\ Len(ixfields) = 2
    /\ ixfields[1].Col.ColumnName = <<"b">>
    /\ ixfields[2].Col.ColumnName = <<"a">>

\* The first token of the order string that PgIndexColumns cannot place.
C16_Offending ==
    C15_Ordinals[CHOOSE i \in DOMAIN C15_Ordinals :
        /\ ~(AtoiOk(C15_Ordinals[i]) /\ HasCid(ixin.cols, Atoi(C15_Ordinals[i])))
        /\ \A j \in 1..(i - 1) :
                AtoiOk(C15_Ordinals[j]) /\ HasCid(ixin.cols, Atoi(C15_Ordinals[j]))]

\* C16: when both catalog queries succeed and an ordinal of the order string
\* is the column id of no listed column, the call fails: it returns no
\* column list, no index field is loaded, and the error names the relation
\* with its schema prefix, the index, and the first token that could not be
\* placed (the ordinal, as a number, when it is one).
C16_UnmatchedOrdinalIsError ==
    (/\ ixpc \in {"loaded", "failed"}
     /\ ixret.err \notin {IndexColumnsErr, ColOrderErr}
     /\ \E i \in DOMAIN C15_Ordinals :
            AtoiOk(C15_Ordinals[i]) /\ ~HasCid(ixin.cols, Atoi(C15_Ordinals[i])))
        => /\ ixpc = "failed"
           /\ ixret.cols = <<>>
           /\ ixfields = <<>>
           /\ Len(ixret.err) = 6 \/ Len(ixret.err) = 7
           /\ ixret.err[2] = (IF ixin.schema = <<>> THEN <<>>
                              ELSE ixin.schema \o <<".">>) \o ixin.table
           /\ ixret.err[4] = ixin.index
           /\ ixret.err[6] = IF AtoiOk(C16_Offending)
                             THEN Itoa(Atoi(C16_Offending))
                             ELSE C16_Offending

C16_Witness ==
    /\ ixpc = "failed"
    /\ ixin.ord = <<"1", " ", "3">>
    /\ \A i \in DOMAIN ixin.cols : ixin.cols[i].Cid # 3
    /\ ixret = [cols |-> <<>>,
                err |-> <<"could not find ", <<"p", ".", "t">>, " index ",
                          <<"i", "x">>, " column id ", <<"3">>>>]


(***************************************************************************)
(* Implicit primary-key index                                              *)
(***************************************************************************)

\* The keys of ixMap that belong to relation t and to no index the catalog
\* reported for it.
C17_Synthesized(t) ==
    {k \in DOMAIN ixMap :
        /\ ixMap[k].Type = t
        /\ \A i \in DOMAIN db.indexes[t] : k # t \o <<"_">> \o db.indexes[t][i].IndexName}

\* C17: when index loading has succeeded, every relation with a primary-key
\* field, no reported index flagged primary or of origin "pk", and an adapter
\* other than ora has exactly one index beyond the reported ones: it is named
\* <table>_<pkcolumn>_pkey, is unique and primary, and its field list is the
\* primary-key field. Every other relation has none beyond the reported ones.
C17_ImplicitPrimaryKeyIndex ==
    status = "done" =>
        \A t \in DOMAIN tableMap :
            IF /\ tableMap[t].PrimaryKey # NilField
               /\ \A i \in DOMAIN db.indexes[t] :
                    ~db.indexes[t][i].IsPrimary /\ db.indexes[t][i].Origin # "pk"
               /\ args.LoaderType # "ora"
            THEN /\ C17_Synthesized(t)
                    = {t \o <<"_">> \o tableMap[t].PrimaryKey.Col.ColumnName
                         \o <<"_", "p", "k", "e", "y">>}
                 /\ \A k \in C17_Synthesized(t) :
                    /\ ixMap[k].Index.IndexName = k
                    /\ ixMap[k].Index.IsUnique
                    /\ ixMap[k].Index.IsPrimary
                    /\ ixMap[k].Fields = <<tableMap[t].PrimaryKey>>
            ELSE C17_Synthesized(t) = {}

\* A non-primary index was reported and the primary-key index was added
\* next to it.
C17_Witness ==
    /\ status = "done"
    /\ args.LoaderType = "postgres"
    /\ DOMAIN ixMap = {<<"t", "_", "t", "_", "x">>,
                       <<"t", "_", "i", "d", "_", "p", "k", "e", "y">>}
    /\ ixMap[<<"t", "_", "i", "d", "_", "p", "k", "e", "y">>].Index.IsPrimary


(***************************************************************************)
(* The type mapping resolver                                               *)
(***************************************************************************)

\* C18: PgParseType is deterministic. Any two calls of one run with the same
\* descriptor, nullability and mode returned the same type, zero value and
\* precision, whatever was resolved before or between them.
C18_Deterministic ==
    \A i, j \in DOMAIN ptlog :
        (/\ ptlog[i].dt = ptlog[j].dt
         /\ ptlog[i].nullable = ptlog[j].nullable
         /\ ptlog[i].mode = ptlog[j].mode)
        => /\ ptlog[i].typ = ptlog[j].typ
           /\ ptlog[i].nilVal = ptlog[j].nilVal
           /\ ptlog[i].precision = ptlog[j].precision

\* "integer" was resolved, then "bytea", which sets the slice flag of its
\* call, then "integer" again.
C18_Witness ==
    /\ Len(ptlog) = 3
    /\ ptlog[1].dt = "integer" /\ ~ptlog[1].nullable
    /\ ptlog[2].dt = "bytea" /\ ptlog[2].typ = "[]byte"
    /\ ptlog[3].dt = "integer" /\ ~ptlog[3].nullable
    /\ ptlog[3].typ = "int"
    /\ ptlog[3].mode = "PgtypeModeStd"

\* C19: in Standard mode "character varying[]" with nullable=true resolves
\* to StringSlice, and so does every array whose element is a string type,
\* nullable or not.
C19_StringArrayIsStringSlice ==
    \A i \in DOMAIN ptlog :
        (/\ ptlog[i].mode = "PgtypeModeStd"
         /\ ptlog[i].dt \in {"character varying[]", "text[]"})
        => /\ ptlog[i].typ = "StringSlice"
           /\ ptlog[i].nilVal = "StringSlice{}"

\* The type and zero value of a locally defined type, for the descriptors
\* no mapping table knows; the current schema is "public".
C20_LocalType(dt) ==
    CASE dt = "public.my_type" -> [typ |-> "MyType", nilVal |-> "MyType(0)"]
      [] dt = "public.user_id(3)" -> [typ |-> "UserID", nilVal |-> "UserID(0)"]
      [] dt = "other.my_type" -> [typ |-> "OtherMyType", nilVal |-> "OtherMyType{}"]
      [] dt = "my_type[]" -> [typ |-> "[]MyType", nilVal |-> "nil"]

\* C20: a descriptor no mapping table knows resolves, in every mode and for
\* both nullabilities, to the type named after the descriptor: without the
\* qualifier when it is qualified with the current schema, the whole
\* descriptor otherwise (an array of it when array-marked). The type is never
\* empty.
C20_UnknownTypeFallsBack ==
    \A i \in DOMAIN ptlog :
        ptlog[i].dt \in {"public.my_type", "public.user_id(3)", "other.my_type",
                         "my_type[]"}
        => /\ ptlog[i].typ = C20_LocalType(ptlog[i].dt).typ
           /\ ptlog[i].nilVal = C20_LocalType(ptlog[i].dt).nilVal
           /\ ptlog[i].typ # ""

\* A nullable column of a type of the current schema, in pointer mode, where
\* the mapping returned "*" and not ok.
C20_Witness ==
    /\ ptlog # <<>>
    /\ ptlog[1].dt = "public.my_type"
    /\ ptlog[1].nullable
    /\ ptlog[1].mode = "PgtypeModePointer"
    /\ ptlog[1].typ = "MyType"


(***************************************************************************)
(* The global foreign-key map                                              *)
(***************************************************************************)

\* The foreign keys GetTableForeignKeys resolves for relation t.
C26_Resolved(t) ==
    GetTableForeignKeys(tableMap, tableMap[t], FALSE, <<>>, 0,
                        extractProperForeignKeys(db.fks[t], args.DSN), <<>>).foreignKeys

\* C26: when LoadForeignKeys has returned without error, every foreign key
\* resolved for every relation is an entry of the global map: none was
\* overwritten by another.
C26_NoForeignKeyLost ==
    (Len(pc) >= 6 /\ (Len(pc) = 6 => err = NoErr))
    => \A t \in DOMAIN tableMap :
       \A i \in DOMAIN C26_Resolved(t) :
            \E k \in DOMAIN fkMap : fkMap[k] = C26_Resolved(t)[i]


(***************************************************************************)
(* The presentation mode                                                   *)
(***************************************************************************)

\* What PgtypeMode.String prints for the mode of args.
C21_String ==
    CASE ptargs.PgtypeMode = "PgtypeModeStd" -> "std"
      [] ptargs.PgtypeMode = "PgtypeModeFull" -> "pgtype-full"
      [] ptargs.PgtypeMode = "PgtypeModePointer" -> "pointer"
      [] ptargs.PgtypeMode = "PgtypeModePgtype" -> "pgtype"

\* The mode each accepted text names, as String prints it.
C21_Named ==
    [text \in {"std", "Default", "pgtype-full", "pointer", "PGTYPE"} |->
        CASE text \in {"std", "Default"} -> "std"
          [] text = "PGTYPE" -> "pgtype"
          [] OTHER -> text]

\* C21: UnmarshalText accepts the mode strings std, default, pgtype-full,
\* pointer and pgtype, whatever their case, and the mode is then the one the
\* string names; for every other string it returns the error "invalid
\* PgtypeMode", and a step that returns this error leaves the mode as it
\* was.
C21_UnmarshalText ==
    /\ [](pttext # <<>> =>
            IF pttext[1] \in DOMAIN C21_Named
            THEN pterr = "nil" /\ C21_String = C21_Named[pttext[1]]
            ELSE pterr = "invalid PgtypeMode")
    /\ [][pterr' # "nil" => ptargs' = ptargs]_vars

\* The mode was pointer and the text "full" was refused.
C21_Witness ==
    /\ pttext = <<"full">>
    /\ pterr = "invalid PgtypeMode"
    /\ ptargs.PgtypeMode = "PgtypeModePointer"


(***************************************************************************)
(* Initialisms                                                             *)
(***************************************************************************)

\* C22: New and Add return an error when one of the strings has fewer than
\* 2 characters, and every string of the set has at least 2 characters.
C22_ShortInitialismRejected ==
    /\ (sncall # <<>> /\ \E i \in DOMAIN sncall.arg : Len(sncall.arg[i]) < 2)
            => sncall.err # NoErr
    /\ \A s \in ini.m : Len(s) >= 2

\* Whether the character ch is an ASCII upper-case letter.
C23_Upper(ch) == \E k \in DOMAIN UpperChars : UpperChars[k] = ch

\* The registered initialisms that start at position at of name.
C23_StartingAt(name, at) ==
    {s \in ini.m : /\ at + Len(s) - 1 <= Len(name)
                   /\ SubSeq(name, at, at + Len(s) - 1) = s}

\* The longest string of the set S, or the character of name at position at
\* when S is empty.
C23_LongestOr(S, name, at) ==
    IF S = {} THEN SubSeq(name, at, at)
    ELSE CHOOSE s \in S : \A t \in S : Len(t) <= Len(s)

C24_Letter(ch) == C23_Upper(ch) \/ \E k \in DOMAIN LowerChars : LowerChars[k] = ch

C25_Range(q) == {q[k] : k \in DOMAIN q}

\* C25 as stated: when a catalog query of PgTables fails (table list,
\* sequences, auto-increments), PgTables returns that query's error and no
\* table.
C25_AnyQueryFailureReturned ==
    (tbret # <<>> /\ tbin.fail # {}) =>
        /\ \E q \in tbin.fail : tbret.err = AdapterErr(q, tbin.schema)
        /\ tbret.tables = <<>>

\* C25, amended: PgTables returns the error of the table-list query, and no
\* table, when that query fails. A failure of the sequence query or of the
\* auto-increment query is not returned: PgTables returns no error and one
\* table for each row of the table list, in its order, with ManualPk false
\* exactly when the row's name is a TableName of a sequence or of an
\* auto-increment whose query succeeded.
C25_OnlyTableListFailureReturned ==
    tbret # <<>> =>
        IF "models.PgTables" \in tbin.fail
        THEN /\ tbret.err = AdapterErr("models.PgTables", tbin.schema)
             /\ tbret.tables = <<>>
        ELSE /\ tbret.err = NoErr
             /\ Len(tbret.tables) = Len(tbin.rows)
             /\ \A i \in DOMAIN tbin.rows :
                    /\ tbret.tables[i].TableName = tbin.rows[i].TableName
                    /\ tbret.tables[i].Type = tbin.rows[i].Type
                    /\ ~tbret.tables[i].ManualPk
                        <=> \/ /\ "models.PgSequences" \notin tbin.fail
                               /\ tbin.rows[i].TableName \in C25_Range(tbin.sequences)
                            \/ /\ "models.CrAutoIncrements" \notin tbin.fail
                               /\ tbin.rows[i].TableName
                                    \in C25_Range(tbin.crAutoIncrements)

\* The sequence query failed for a schema where t owns a sequence and u has
\* an auto-increment: PgTables returned both tables and no error, t with a
\* manual primary key and u without.
C25_Witness ==
    /\ tbret # <<>>
    /\ tbin.fail = {"models.PgSequences"}
    /\ tbin.sequences = <<nm.t>>
    /\ tbin.crAutoIncrements = <<nm.u>>
    /\ tbret.err = NoErr
    /\ Len(tbret.tables) = 2
    /\ tbret.tables[1].TableName = nm.t /\ tbret.tables[1].ManualPk
    /\ tbret.tables[2].TableName = nm.u /\ ~tbret.tables[2].ManualPk

====
